---- MODULE Spec2Model ----
(***************************************************************************)
(* A model of the Motif SDK: the input validators of utils.ts, the         *)
(* off-chain content verifier (isURIHashVerified and the record            *)
(* verifiers built on it) and the asset wrappers MotifItem, MotifSpace,    *)
(* MotifAvatar and MotifLand, whose write methods validate their input     *)
(* before they forward it to the contract bindings.                        *)
(*                                                                         *)
(* Three specifications share the variables:                               *)
(*   SpecUtil   - the pure validators, applied to inputs drawn by Init;    *)
(*   SpecAsset  - one asset wrapper and the contract calls it makes;       *)
(*   SpecVerify - verification calls and the HTTP requests they issue.     *)
(*                                                                         *)
(* A method that awaits is one action up to each await and one after it:   *)
(* between the two the call is suspended in inFlight, and other calls of   *)
(* the wrapper may run.                                                    *)
(***************************************************************************)
EXTENDS Integers, Sequences, FiniteSets, TLC

VARIABLES
    utilIn,        \* SpecUtil: the call under test, [fn, ...arguments]
    utilOut,       \* SpecUtil: its outcome, Pending until the call ran
    wrapper,       \* SpecAsset: the wrapper instance, or NoWrapper
    contractLog,   \* SpecAsset: the contract calls issued since the wrapper was last
                   \* idle, in the order issued, each with the id of its SDK call
    sdkCall,       \* SpecAsset: the SDK call that took the last step: id, method, arguments,
                   \* and for a constructor the warnings it wrote to the console
    sdkResult,     \* SpecAsset: how that call stands: Pending, or how it settled
    contractCount, \* SpecAsset: how many contract calls the wrapper has made so far
    inFlight,      \* SpecAsset: the SDK calls suspended at an await, with what they wait for
    calls,         \* SpecVerify: per call id, the state of a verification call
    requests       \* SpecVerify: the HTTP GET requests issued, in order

vars == <<utilIn, utilOut, wrapper, contractLog, sdkCall, sdkResult, contractCount,
          inFlight, calls, requests>>
utilVars == <<utilIn, utilOut>>
assetVars == <<wrapper, contractLog, sdkCall, sdkResult, contractCount, inFlight>>
verifyVars == <<calls, requests>>

Pending == [state |-> "pending"]
Null == [state |-> "null"]

(***************************************************************************)
(* Text.  A JavaScript string the code inspects character by character     *)
(* (a URI, a hex string) is a sequence of one-character strings; a message *)
(* the code only builds is a TLA+ string.                                  *)
(***************************************************************************)
RECURSIVE Join(_)
Join(cs) == IF cs = <<>> THEN "" ELSE Head(cs) \o Join(Tail(cs))

DigitChar == <<"0", "1", "2", "3", "4", "5", "6", "7", "8", "9">>

\* Number.prototype.toString / BigInt digits of a natural number.
RECURSIVE NatToString(_)
NatToString(n) ==
    IF n < 10 THEN DigitChar[n + 1]
    ELSE NatToString(n \div 10) \o DigitChar[(n % 10) + 1]

(***************************************************************************)
(* BigNumber (@ethersproject/bignumber): an arbitrary-precision integer.   *)
(* The model keeps it as four limbs <<d0, d1, d2, d3>> in base 10^6,       *)
(* least significant first: value = d0 + d1*10^6 + d2*10^12 + d3*10^18     *)
(* with 0 <= d0, d1, d2 < 10^6 and d3 any integer (negative for a negative *)
(* value), so 10^18 fixed-point values stay inside the checker's integers. *)
(***************************************************************************)
LimbBase == 10 ^ 6

IsBigNumber(v) ==
    /\ v \in Seq(Int) /\ Len(v) = 4
    /\ \A i \in 1..3 : v[i] \in 0..(LimbBase - 1)

\* BigNumber.add
BNAdd(a, b) ==
    LET s0 == a[1] + b[1]
        s1 == a[2] + b[2] + (s0 \div LimbBase)
        s2 == a[3] + b[3] + (s1 \div LimbBase)
    IN  <<s0 % LimbBase, s1 % LimbBase, s2 % LimbBase, a[4] + b[4] + (s2 \div LimbBase)>>

\* The limbs of -v.
BNNegate(v) ==
    LET b0 == IF v[1] = 0 THEN 0 ELSE 1
        b1 == IF v[2] + b0 = 0 THEN 0 ELSE 1
        b2 == IF v[3] + b1 = 0 THEN 0 ELSE 1
    IN  <<(LimbBase - v[1]) % LimbBase,
          (LimbBase - v[2] - b0) % LimbBase,
          (LimbBase - v[3] - b1) % LimbBase,
          (0 - v[4]) - b2>>

\* A limb below the leading one prints as exactly six digits.
Pad6(n) ==
    DigitChar[((n \div 100000) % 10) + 1] \o DigitChar[((n \div 10000) % 10) + 1]
    \o DigitChar[((n \div 1000) % 10) + 1] \o DigitChar[((n \div 100) % 10) + 1]
    \o DigitChar[((n \div 10) % 10) + 1] \o DigitChar[(n % 10) + 1]

\* The decimal digits of a non-negative BigNumber, without leading zeros.
BNMagnitudeToString(v) ==
    IF v[4] > 0 THEN NatToString(v[4]) \o Pad6(v[3]) \o Pad6(v[2]) \o Pad6(v[1])
    ELSE IF v[3] > 0 THEN NatToString(v[3]) \o Pad6(v[2]) \o Pad6(v[1])
    ELSE IF v[2] > 0 THEN NatToString(v[2]) \o Pad6(v[1])
    ELSE NatToString(v[1])

\* BigNumber.toString: the canonical base-10 rendering.
BNToString(v) ==
    IF v[4] < 0 THEN "-" \o BNMagnitudeToString(BNNegate(v))
    ELSE BNMagnitudeToString(v)

\* p * 10^18 + w for a whole percentage p and 0 <= w < 10^18 given as limbs.
Wei(p, d2, d1, d0) == <<d0, d1, d2, p>>

\* The BigNumber p * 10^18 + w, for a whole number p and a few wei w, |w| < 10^6.
ToBN(p, w) ==
    IF w >= 0 THEN Wei(p, 0, 0, w)
    ELSE Wei(p - 1, LimbBase - 1, LimbBase - 1, LimbBase + w)

\* Decimal.new(100).value: 100 in the 18-decimal fixed-point domain.
Decimal100 == Wei(100, 0, 0, 0)

(***************************************************************************)
(* tiny-invariant: invariant(false, message) throws an Error whose message *)
(* is "Invariant failed: " followed by the message given.                  *)
(***************************************************************************)
Ok == [ok |-> TRUE]
Threw(message) == [ok |-> FALSE, message |-> message]
InvariantFailed(message) == Threw("Invariant failed: " \o message)

(***************************************************************************)
(* validateBidShares (utils.ts)                                            *)
(***************************************************************************)
BidSharesSum(creator, owner, prevOwner) ==
    BNAdd(BNAdd(creator.value, owner.value), prevOwner.value)

ValidateBidSharesWithTolerance(creator, owner, prevOwner) ==
    LET sum == BidSharesSum(creator, owner, prevOwner)
    IN  IF sum[4] # Decimal100[4]
        THEN InvariantFailed("The BidShares sum to " \o BNToString(sum)
                 \o ", but they must sum to " \o BNToString(Decimal100))
        ELSE Ok

validateBidShares(creator, owner, prevOwner) ==
    LET sum == BidSharesSum(creator, owner, prevOwner)
    IN  IF BNToString(sum) # BNToString(Decimal100)
        THEN InvariantFailed("The BidShares sum to " \o BNToString(sum)
                 \o ", but they must sum to " \o BNToString(Decimal100))
        ELSE Ok

(***************************************************************************)
(* validateURI (utils.ts) matches the uri against a regular expression:    *)
(* the literal https:// and then a group of any characters.  The pattern   *)
(* is anchored at the start of the string (no m flag), compares its literal *)
(* characters exactly (no i flag), and its group takes the longest run of  *)
(* characters that are not line terminators, which may be empty.           *)
(***************************************************************************)
HttpsLiteral == <<"h", "t", "t", "p", "s", ":", "/", "/">>

\* The line separator U+2028 and the paragraph separator U+2029, which a TLA+
\* string cannot hold, are written as their JavaScript escapes; each is one
\* character of a uri.
LineSeparator == "\\u2028"
ParagraphSeparator == "\\u2029"

\* The characters the dot of a regular expression does not match.
LineTerminators == {"\n", "\r", LineSeparator, ParagraphSeparator}

RECURSIVE DotStar(_)
DotStar(cs) ==
    IF cs = <<>> \/ Head(cs) \in LineTerminators THEN <<>>
    ELSE <<Head(cs)>> \o DotStar(Tail(cs))

RECURSIVE MatchLiteralAt(_, _, _)
MatchLiteralAt(cs, lit, i) ==
    IF i > Len(lit) THEN TRUE
    ELSE IF i > Len(cs) THEN FALSE
    ELSE cs[i] = lit[i] /\ MatchLiteralAt(cs, lit, i + 1)

\* String.prototype.match with the pattern of validateURI: the match, or Null.
MatchHttps(uri) ==
    IF MatchLiteralAt(uri, HttpsLiteral, 1)
    THEN [state |-> "match", group |-> DotStar(SubSeq(uri, Len(HttpsLiteral) + 1, Len(uri)))]
    ELSE Null

\* The grave accent that quotes https:// in the message.  In a TLA+ string a
\* grave accent opens a quotation that an apostrophe closes, so the character
\* is taken from such a pair.
GraveAccent == SubSeq("`'", 1, 1)

\* https:// as the message quotes it.
QuotedHttps == GraveAccent \o "https://" \o GraveAccent

URIMessage(uri) ==
    Join(uri) \o " must begin with " \o QuotedHttps

ToLowerAscii(c) ==
    CASE c = "H" -> "h" [] c = "T" -> "t" [] c = "P" -> "p" [] c = "S" -> "s"
      [] OTHER -> c

ValidateURIIgnoringCase(uri) ==
    IF MatchHttps([i \in 1..Len(uri) |-> ToLowerAscii(uri[i])]) = Null
    THEN InvariantFailed(URIMessage(uri))
    ELSE Ok

\* A check that lets http:// pass as well.
ValidateURIAcceptingHttp(uri) ==
    IF /\ MatchHttps(uri) = Null
       /\ ~(Len(uri) >= 7 /\ SubSeq(uri, 1, 7) = <<"h", "t", "t", "p", ":", "/", "/">>)
    THEN InvariantFailed(URIMessage(uri))
    ELSE Ok

validateURI(uri) ==
    IF MatchHttps(uri) = Null THEN InvariantFailed(URIMessage(uri)) ELSE Ok

(***************************************************************************)
(* SpecUtil: Init draws one call of a validator with its arguments, and    *)
(* the action of that validator runs it and records how it ended.          *)
(***************************************************************************)
\* A share is p * 10^18 + w wei: whole percentages, and values a wei off.
ShareInputs ==
    {[p |-> q, w |-> 0] : q \in {0, 10, 20, 70, 90, 100, 110, 0 - 10}}
    \cup {[p |-> 10, w |-> 1], [p |-> 10, w |-> 0 - 1], [p |-> 0, w |-> 1]}

DecimalOf(share) == [value |-> ToBN(share.p, share.w)]

URIPrefixes ==
    { HttpsLiteral,
      <<"h", "t", "t", "p", ":", "/", "/">>,
      <<"H", "T", "T", "P", "S", ":", "/", "/">>,
      <<"H", "t", "t", "p", "s", ":", "/", "/">>,
      <<"h", "t", "t", "p", "s", ":", "/">>,
      <<"h", "t", "t", "p", "s", "/", "/">>,
      <<"h", "t", "t", "p", "s">>,
      <<"i", "p", "f", "s", ":", "/", "/">>,
      <<" ">> \o HttpsLiteral,
      <<"\n">> \o HttpsLiteral,
      <<"x">> \o HttpsLiteral,
      <<>> }

URISuffixes ==
    { <<>>, <<"a">>, <<"e", "x", ".", "c", "o", "m">>, <<"a", "\n", "b">>, <<"a", LineSeparator, "b">>,
      <<ParagraphSeparator>>, HttpsLiteral }

URIInputs == {pre \o suf : pre \in URIPrefixes, suf \in URISuffixes}

UtilInputs ==
    {[fn |-> "validateBidShares", creator |-> c, owner |-> o, prevOwner |-> q] :
        c \in ShareInputs, o \in ShareInputs, q \in ShareInputs}
    \cup {[fn |-> "validateURI", uri |-> u] : u \in URIInputs}

NoWrapper == [state |-> "none"]
NoCall == [state |-> "none"]
NoSdkCall == [id |-> 0, method |-> "none"]

AssetIdle ==
    /\ wrapper = NoWrapper
    /\ contractLog = <<>>
    /\ sdkCall = NoSdkCall
    /\ sdkResult = NoCall
    /\ contractCount = 0
    /\ inFlight = {}

VerifyIdle ==
    /\ calls = <<>>
    /\ requests = <<>>

UtilIdle ==
    /\ utilIn = NoCall
    /\ utilOut = NoCall

InitUtil ==
    /\ utilIn \in UtilInputs
    /\ utilOut = Pending
    /\ AssetIdle
    /\ VerifyIdle

ApplyValidateBidShares ==
    /\ utilOut = Pending
    /\ utilIn.fn = "validateBidShares"
    /\ utilOut' = validateBidShares(DecimalOf(utilIn.creator), DecimalOf(utilIn.owner),
                                    DecimalOf(utilIn.prevOwner))
    /\ UNCHANGED <<utilIn, assetVars, verifyVars>>

ApplyValidateURI ==
    /\ utilOut = Pending
    /\ utilIn.fn = "validateURI"
    /\ utilOut' = validateURI(utilIn.uri)
    /\ UNCHANGED <<utilIn, assetVars, verifyVars>>

NextUtil ==
    \/ ApplyValidateBidShares
    \/ ApplyValidateURI

SpecUtil == InitUtil /\ [][NextUtil]_vars

(***************************************************************************)
(* C1.  validateBidShares succeeds exactly when the three values sum to    *)
(* 100 * 10^18, with no tolerance, and its failure reports the actual sum  *)
(* and the expected sum 100000000000000000000.                             *)
(* The inputs are p * 10^18 + w with |w| <= 1, so the sum is P * 10^18 + W *)
(* for P the sum of the p and W the sum of the w, and it is 100 * 10^18    *)
(* exactly when P = 100 and W = 0.                                         *)
(***************************************************************************)
Zeros17 == "00000000000000000"

\* The decimal digits of P * 10^18 + W >= 0, for |W| <= 9.
RenderWei(P, W) ==
    IF W = 0 THEN (IF P = 0 THEN "0" ELSE NatToString(P) \o Zeros17 \o "0")
    ELSE IF W > 0 THEN (IF P = 0 THEN "" ELSE NatToString(P) \o Zeros17) \o NatToString(W)
    ELSE (IF P = 1 THEN "" ELSE NatToString(P - 1))
         \o "99999999999999999" \o NatToString(10 + W)

ExpectedSumText(P, W) ==
    IF P < 0 \/ (P = 0 /\ W < 0) THEN "-" \o RenderWei(0 - P, 0 - W) ELSE RenderWei(P, W)

SumP == utilIn.creator.p + utilIn.owner.p + utilIn.prevOwner.p
SumW == utilIn.creator.w + utilIn.owner.w + utilIn.prevOwner.w

BidSharesCallDone == utilIn.fn = "validateBidShares" /\ utilOut # Pending

C1_ValidateBidSharesExact ==
    BidSharesCallDone =>
        /\ (utilOut = Ok) <=> (SumP = 100 /\ SumW = 0)
        /\ utilOut # Ok =>
              utilOut = Threw("Invariant failed: The BidShares sum to "
                              \o ExpectedSumText(SumP, SumW)
                              \o ", but they must sum to 100000000000000000000")

\* A triple one wei short of 100% has been rejected with both sums reported.
C1_Witness ==
    /\ BidSharesCallDone
    /\ SumP = 100 /\ SumW = 0 - 1
    /\ utilOut = Threw("Invariant failed: The BidShares sum to 99999999999999999999"
                       \o ", but they must sum to 100000000000000000000")

(***************************************************************************)
(* C10.  validateURI succeeds exactly when the uri begins with the         *)
(* literal, case-sensitive prefix https://, and fails for every other      *)
(* string.                                                                 *)
(***************************************************************************)
StartsWithHttps(uri) ==
    /\ Len(uri) >= 8
    /\ SubSeq(uri, 1, 8) = <<"h", "t", "t", "p", "s", ":", "/", "/">>

URICallDone == utilIn.fn = "validateURI" /\ utilOut # Pending

C10_ValidateURIPrefix ==
    URICallDone =>
        /\ (utilOut = Ok) <=> StartsWithHttps(utilIn.uri)
        /\ utilOut # Ok => utilOut.ok = FALSE

\* An upper-case scheme and a plain http uri have been rejected.
C10_Witness ==
    /\ URICallDone
    /\ utilIn.uri = <<"H", "T", "T", "P", "S", ":", "/", "/", "a">>
    /\ utilOut.ok = FALSE

(***************************************************************************)
(* The asset wrappers: MotifItem, MotifSpace, MotifAvatar and MotifLand.   *)
(* A wrapper holds a contract binding connected to a signer or a provider. *)
(* Every write method runs its checks inside try/catch, rejects with the   *)
(* message of the first check that throws, and otherwise forwards its      *)
(* arguments to the binding and returns the binding's promise.             *)
(***************************************************************************)
MaxContractCalls == 2
MaxBatch == 2

Kinds == {"item", "space", "avatar", "land"}

\* Signer.isSigner(signerOrProvider): a Wallet carries _isSigner, a provider does not.
SignerOrProviderInputs == {[isSigner |-> TRUE], [isSigner |-> FALSE]}

Undefined == [defined |-> FALSE, text |-> ""]
Str(text) == [defined |-> TRUE, text |-> text]

\* A test of the address that takes the empty string for an address.
FalsyOnlyWhenUndefined(a) == ~a.defined

\* !address of the constructor: undefined and the empty string are falsy.
Falsy(a) == ~a.defined \/ a.text = ""

ChecksummedA == "0x1D7022f5B17d2F8B695918FB48fa1089C9f85401"
LowercaseA == "0x1d7022f5b17d2f8b695918fb48fa1089c9f85401"
ChecksummedB == "0x1dC4c1cEFEF38a777b15aA20260a54E584b16C48"
NotAnAddress == "not a valid ethereum address"

\* The constructor's address arguments: absent, empty, valid (one of them not
\* in checksum case) and invalid.
AssetAddressInputs == {Undefined, Str(""), Str(LowercaseA), Str(NotAnAddress)}
ExchangeAddressInputs == {Undefined, Str(""), Str(ChecksummedB), Str(NotAnAddress)}

\* Other ways of writing the address of ChecksummedA: its digits in upper
\* case, without the 0x, and in a mixed case that is not its checksum case.
UppercaseA == "0x1D7022F5B17D2F8B695918FB48FA1089C9F85401"
UnprefixedA == "1d7022f5b17d2f8b695918fb48fa1089c9f85401"
MiscasedA == "0x1d7022f5B17d2F8B695918FB48fa1089C9f85401"
\* 39 hex digits.
ShortAddress == "0x1d7022f5b17d2f8b695918fb48fa1089c9f8540"

\* getAddress that does not look at the case of the digits.
GetAddressIgnoringCase(text) ==
    CASE text \in {ChecksummedA, LowercaseA, UppercaseA, UnprefixedA, MiscasedA} ->
           [ok |-> TRUE, value |-> ChecksummedA]
      [] text = ChecksummedB -> [ok |-> TRUE, value |-> ChecksummedB]
      [] OTHER -> Threw("invalid address")

\* getAddress (@ethersproject/address) on the addresses the model uses: 40
\* hex digits, with or without 0x, in one case or in their checksum case
\* give the checksum form; digits in a mixed case that is not the checksum
\* case, and anything that is not 40 hex digits, throw.
getAddress(text) ==
    CASE text \in {ChecksummedA, LowercaseA, UppercaseA, UnprefixedA} ->
           [ok |-> TRUE, value |-> ChecksummedA]
      [] text = ChecksummedB -> [ok |-> TRUE, value |-> ChecksummedB]
      [] text = MiscasedA -> Threw("bad address checksum")
      [] OTHER -> Threw("invalid address")

\* warning(condition, message) of tiny-warning: what it writes to the console.
Warning(condition, message) == IF condition THEN <<>> ELSE <<"Warning: " \o message>>

\* A throw after the warnings that were written before it.
ThrewAfter(warnings, message) == [ok |-> FALSE, message |-> message, warnings |-> warnings]

\* The warnings an outcome carries: what the call wrote to the console.
WarningsOf(outcome) == IF "warnings" \in DOMAIN outcome THEN outcome.warnings ELSE <<>>

validateAndParseAddress(address) ==
    LET parsed == getAddress(address)
    IN  IF parsed.ok
        THEN [ok |-> TRUE, value |-> parsed.value,
              warnings |-> Warning(address = parsed.value,
                                   address \o " is not checksummed.")]
        ELSE InvariantFailed(address \o " is not a valid address.")

ChainIdInputs == {1, 3, 4, 50, 7018}

chainIdToNetworkName(chainId) ==
    CASE chainId = 7018 -> [ok |-> TRUE, value |-> "motif"]
      [] chainId = 3 -> [ok |-> TRUE, value |-> "ropsten"]
      [] chainId = 1 -> [ok |-> TRUE, value |-> "mainnet"]
      [] OTHER -> InvariantFailed("chainId " \o NatToString(chainId)
                                  \o " not officially supported by the Motif")

\* addresses[network][key]: the address-book entry of a deployed contract.
AddressBookEntry(network, key) == "addresses." \o network \o "." \o key

\* The address book `addresses` comes in three versions, which differ in the
\* networks they hold; a build has one of them.
AddressBooks == {"part_002", "part_003", "part_004"}

BookNetworks(book) ==
    CASE book = "part_002" -> {"motif"}
      [] book = "part_003" -> {"mainnet", "ropsten", "motif", "motifTestnet"}
      [] book = "part_004" ->
           {"polygon", "binance", "mainnet", "ropsten", "motif", "motifTestnet"}

\* addresses[network].key for a network the book does not hold: a property
\* is read of undefined, and a TypeError is thrown.
UndefinedEntryMessage(key) ==
    "Cannot read properties of undefined (reading '" \o key \o "')"

\* addresses[network][key]
BookLookup(book, network, key) ==
    IF network \in BookNetworks(book)
    THEN [ok |-> TRUE, value |-> AddressBookEntry(network, key)]
    ELSE Threw(UndefinedEntryMessage(key))

PairMessage(kind) ==
    "Motif Constructor: " \o kind \o "Address and " \o kind
    \o "ExchangeAddress must both be non-null or both be null"

\* The constructor of MotifItem, MotifSpace and MotifLand: the instance, or
\* what it throws, with the warnings its address checks wrote.
ConstructWithAddresses(kind, signerOrProvider, chainId, assetAddress, exchangeAddress, book) ==
    IF Falsy(assetAddress) # Falsy(exchangeAddress)
    THEN InvariantFailed(PairMessage(kind))
    ELSE
      LET readOnly == ~signerOrProvider.isSigner
          instance(a, e, warnings) ==
              [ok |-> TRUE,
               value |-> [kind |-> kind, readOnly |-> readOnly, chainId |-> chainId,
                          assetAddress |-> a, exchangeAddress |-> e,
                          signerOrProvider |-> signerOrProvider],
               warnings |-> warnings]
      IN  IF ~Falsy(assetAddress) /\ ~Falsy(exchangeAddress)
          THEN LET pa == validateAndParseAddress(assetAddress.text)
                   pe == validateAndParseAddress(exchangeAddress.text)
               IN  IF ~pa.ok THEN pa
                   ELSE IF ~pe.ok THEN ThrewAfter(pa.warnings, pe.message)
                   ELSE instance(pa.value, pe.value, pa.warnings \o pe.warnings)
          ELSE LET network == chainIdToNetworkName(chainId)
                   asset == BookLookup(book, network.value, kind)
               IN  IF ~network.ok THEN network
                   ELSE IF ~asset.ok THEN asset
                   ELSE instance(asset.value,
                                 BookLookup(book, network.value, kind \o "Exchange").value,
                                 <<>>)

\* The constructor of MotifAvatar, which takes no addresses.
ConstructAvatar(signerOrProvider, chainId, book) ==
    LET readOnly == ~signerOrProvider.isSigner
        network == chainIdToNetworkName(chainId)
        asset == BookLookup(book, network.value, "avatar")
    IN  IF ~network.ok THEN network
        ELSE IF ~asset.ok THEN asset
        ELSE [ok |-> TRUE,
              value |-> [kind |-> "avatar", readOnly |-> readOnly, chainId |-> chainId,
                         assetAddress |-> asset.value,
                         exchangeAddress |->
                             BookLookup(book, network.value, "avatarExchange").value,
                         signerOrProvider |-> signerOrProvider]]

ReadOnlyMessage ==
    "ensureNotReadOnly: readOnly Motif instance cannot call contract methods that require a signer."

EnsureNeverThrows(w) == Ok

ensureNotReadOnly(w) == IF w.readOnly THEN Threw(ReadOnlyMessage) ELSE Ok

Rejected(reason) == [state |-> "rejected", reason |-> reason]
Resolved(value) == [state |-> "resolved", value |-> value]
Thrown(message) == [state |-> "thrown", message |-> message]

\* How the binding's promise settles: a transaction, or the contract's error.
ContractError == "contract call reverted"
TxOutcomes == {Resolved("tx"), Rejected(ContractError)}

\* How estimateGas settles: a gas estimate, or the contract's error.
GasOutcomes == {Rejected(ContractError), Resolved(7), Resolved(100001)}

GoodTokenURI == HttpsLiteral \o <<"t">>
GoodMetadataURI == HttpsLiteral \o <<"m">>
BadTokenURI == <<"h", "t", "t", "p", ":", "/", "/", "t">>
BadMetadataURI == <<"i", "p", "f", "s", ":", "/", "/", "m">>

TokenURIInputs == {GoodTokenURI, BadTokenURI}
MetadataURIInputs == {GoodMetadataURI, BadMetadataURI}

\* ItemData, SpaceData, AvatarData, LandData: the fields the wrappers read.
DataInputs ==
    {[tokenURI |-> t, metadataURI |-> m, contentHash |-> "contentHash",
      metadataHash |-> "metadataHash"] : t \in TokenURIInputs, m \in MetadataURIInputs}

BidSharesOf(c, o, q) == [creator |-> DecimalOf(c), owner |-> DecimalOf(o), prevOwner |-> DecimalOf(q)]

ValidBidShares == BidSharesOf([p |-> 10, w |-> 0], [p |-> 90, w |-> 0], [p |-> 0, w |-> 0])
ShortBidShares == BidSharesOf([p |-> 10, w |-> 0], [p |-> 70, w |-> 0], [p |-> 10, w |-> 0])
OverBidShares == BidSharesOf([p |-> 10, w |-> 1], [p |-> 90, w |-> 0], [p |-> 0, w |-> 0])

BidSharesInputs == {ValidBidShares, ShortBidShares, OverBidShares}

SeqsUpTo(S, n) == UNION {[1..k -> S] : k \in 0..n}

MethodsOf(kind) ==
    {"updateContentURI", "updateMetadataURI", "mint", "setAsk", "setBid", "removeAsk",
     "removeBid", "acceptBid", "permit", "revokeApproval", "burn", "approve",
     "setApprovalForAll", "transferFrom", "safeTransferFrom"}
    \cup (IF kind = "item" THEN {"mintMultiple", "mintWithSig"} ELSE {})
    \cup (IF kind = "avatar" THEN {"mintWithSig", "updateIsDefault"} ELSE {})
    \cup (IF kind = "space" THEN {"setApprovalForAllCustom"} ELSE {})

CanCall(method) ==
    /\ wrapper # NoWrapper
    /\ method \in MethodsOf(wrapper.kind)
    /\ contractCount < MaxContractCalls

\* How many SDK calls may be suspended at an await at a time.
MaxInFlight == 1

\* A wrapper with no call suspended is idle, and the next call starts a new
\* log; while a call is suspended the log goes on.
WindowLog == IF inFlight = {} THEN <<>> ELSE contractLog

CallIdsInUse ==
    {WindowLog[i].call : i \in 1..Len(WindowLog)} \cup {c.call.id : c \in inFlight}

\* The id of the next SDK call: one the log and the suspended calls do not hold.
NextCallId ==
    IF CallIdsInUse = {} THEN 1
    ELSE 1 + CHOOSE m \in CallIdsInUse : \A n \in CallIdsInUse : n <= m

SdkCallOf(method, args) == [id |-> NextCallId, method |-> method, args |-> args]

\* A call of the binding this.item / this.space / this.avatar / this.land
\* made by the SDK call id, with what it returned once it is answered.
ContractCall(id, method, args, returned) ==
    [call |-> id, contract |-> wrapper.kind, at |-> wrapper.assetAddress,
     method |-> method, args |-> args,
     asSigner |-> wrapper.signerOrProvider.isSigner,
     connected |-> "signerOrProvider", returned |-> returned]

\* The contract calls of the SDK call id, in the order issued.
LogOf(id) == SelectSeq(contractLog, LAMBDA e : e.call = id)

\* The contract calls of the SDK call that took the last step.
CallLog == LogOf(sdkCall.id)

\* The log once the contract call the SDK call id waits for is answered.
AnswerPending(log, id, answer) ==
    [i \in 1..Len(log) |->
        IF log[i].call = id /\ log[i].returned = Pending
        THEN [log[i] EXCEPT !.returned = answer]
        ELSE log[i]]

\* return Promise.reject(err.message) of the catch around the checks.
RejectsAtOnce(call, message) ==
    /\ sdkCall' = call
    /\ sdkResult' = Rejected(message)
    /\ contractLog' = WindowLog
    /\ UNCHANGED <<contractCount, inFlight>>

\* return this.item.<method>(...): the binding is called in the turn of the
\* SDK call, and its promise is the promise of the call.
SendsAtOnce(call, contractMethod, args) ==
    \E out \in TxOutcomes :
        /\ sdkCall' = call
        /\ sdkResult' = out
        /\ contractLog' = Append(WindowLog, ContractCall(call.id, contractMethod, args, out))
        /\ contractCount' = contractCount + 1
        /\ UNCHANGED inFlight

\* A suspended SDK call and what it awaits; a call that awaits its record
\* verifier holds the id of that verification.
Awaiting(call, awaiting) == [call |-> call, awaiting |-> awaiting, verification |-> 0]

\* await: the contract calls of the awaited expression are issued, and the
\* SDK call is suspended until the answer comes in a later turn.
Suspends(call, issued, awaiting) ==
    /\ Cardinality(inFlight) < MaxInFlight
    /\ sdkCall' = call
    /\ sdkResult' = Pending
    /\ contractLog' = WindowLog \o issued
    /\ contractCount' = contractCount + Len(issued)
    /\ inFlight' = inFlight \cup {Awaiting(call, awaiting)}

InitAsset ==
    /\ UtilIdle
    /\ AssetIdle
    /\ VerifyIdle

Construct ==
    /\ wrapper = NoWrapper
    /\ \E kind \in Kinds, sp \in SignerOrProviderInputs, chainId \in ChainIdInputs,
          a \in AssetAddressInputs, e \in ExchangeAddressInputs, book \in AddressBooks :
          LET made == IF kind = "avatar" THEN ConstructAvatar(sp, chainId, book)
                      ELSE ConstructWithAddresses(kind, sp, chainId, a, e, book)
          IN  /\ kind = "avatar" => (a = Undefined /\ e = Undefined)
              /\ sdkCall' = [id |-> 0, method |-> "constructor", kind |-> kind, signerOrProvider |-> sp,
                             chainId |-> chainId, assetAddress |-> a, exchangeAddress |-> e,
                             book |-> book, warnings |-> WarningsOf(made)]
              /\ IF made.ok
                 THEN wrapper' = made.value /\ sdkResult' = Resolved("instance")
                 ELSE wrapper' = NoWrapper /\ sdkResult' = Thrown(made.message)
    /\ UNCHANGED <<contractLog, contractCount, inFlight, utilVars, verifyVars>>

\* A write method whose only check is ensureNotReadOnly.
Forward(method, contractMethod, args) ==
    /\ CanCall(method)
    /\ LET call == SdkCallOf(method, args)
           chk == ensureNotReadOnly(wrapper)
       IN  IF ~chk.ok
           THEN RejectsAtOnce(call, chk.message)
           ELSE SendsAtOnce(call, contractMethod, args)
    /\ UNCHANGED <<wrapper, utilVars, verifyVars>>

TheAsk == [currency |-> ChecksummedA, amount |-> 100]
TheBid == [currency |-> ChecksummedA, amount |-> 99, bidder |-> ChecksummedB,
           recipient |-> ChecksummedB, sellOnShare |-> DecimalOf([p |-> 10, w |-> 0])]
TheSig == [deadline |-> 1000, v |-> 0, r |-> "0x00", s |-> "0x00"]

SetAsk == Forward("setAsk", "setAsk", [id |-> 0, ask |-> TheAsk])
SetBid == Forward("setBid", "setBid", [id |-> 0, bid |-> TheBid])
RemoveAsk == Forward("removeAsk", "removeAsk", [id |-> 0])
RemoveBid == Forward("removeBid", "removeBid", [id |-> 0])
AcceptBid == Forward("acceptBid", "acceptBid", [id |-> 0, bid |-> TheBid])
Permit == Forward("permit", "permit", [spender |-> ChecksummedB, id |-> 0, sig |-> TheSig])
RevokeApproval == Forward("revokeApproval", "revokeApproval", [id |-> 0])
Burn == Forward("burn", "burn", [id |-> 0])
Approve == Forward("approve", "approve", [to |-> ChecksummedB, id |-> 0])
SetApprovalForAll ==
    \E approved \in BOOLEAN :
        Forward("setApprovalForAll", "setApprovalForAll",
                [operator |-> ChecksummedB, approved |-> approved])
TransferFrom ==
    Forward("transferFrom", "transferFrom",
            [from |-> ChecksummedA, to |-> ChecksummedB, id |-> 0])
SafeTransferFrom ==
    Forward("safeTransferFrom", "safeTransferFrom",
            [from |-> ChecksummedA, to |-> ChecksummedB, id |-> 0])
UpdateIsDefault ==
    \E isDefault \in BOOLEAN :
        Forward("updateIsDefault", "updateTokenDefault", [id |-> 0, isDefault |-> isDefault])

\* MotifSpace.setApprovalForAllCustom: after the check it awaits the loading
\* of the environment file, so its contract call is made in a later turn.
SetApprovalForAllCustom ==
    /\ CanCall("setApprovalForAllCustom")
    /\ \E approved \in BOOLEAN :
          LET call == SdkCallOf("setApprovalForAllCustom",
                                [operator |-> ChecksummedB, approved |-> approved,
                                 spaceAddress |-> ChecksummedA])
              chk == ensureNotReadOnly(wrapper)
          IN  IF ~chk.ok
              THEN RejectsAtOnce(call, chk.message)
              ELSE Suspends(call, <<>>, "dotenv.config")
    /\ UNCHANGED <<wrapper, utilVars, verifyVars>>

\* setApprovalForAllCustom after the await, in an environment that holds
\* RPC_ENDPOINT and PRIVATE_KEY: a space binding is connected at spaceAddress
\* to a wallet made of the key, and its setApprovalForAll(operator, approved)
\* is the promise of the call.
EnvironmentLoaded ==
    /\ \E c \in inFlight, out \in TxOutcomes :
          /\ c.awaiting = "dotenv.config"
          /\ sdkCall' = c.call
          /\ sdkResult' = out
          /\ contractLog' =
                Append(contractLog,
                       [call |-> c.call.id, contract |-> "space",
                        at |-> c.call.args.spaceAddress, method |-> "setApprovalForAll",
                        args |-> [operator |-> c.call.args.operator,
                                  approved |-> c.call.args.approved],
                        asSigner |-> TRUE, connected |-> "Wallet(process.env.PRIVATE_KEY)",
                        returned |-> out])
          /\ contractCount' = contractCount + 1
          /\ inFlight' = inFlight \ {c}
    /\ UNCHANGED <<wrapper, utilVars, verifyVars>>

\* The checks of updateContentURI and updateMetadataURI, in the code's order.
UpdateURIChecks(w, uri) ==
    LET c1 == ensureNotReadOnly(w)
    IN  IF ~c1.ok THEN c1 ELSE validateURI(uri)

UpdateURI(method, contractMethod, uris) ==
    /\ CanCall(method)
    /\ \E uri \in uris :
          LET args == [id |-> 0, uri |-> uri]
              call == SdkCallOf(method, args)
              chk == UpdateURIChecks(wrapper, uri)
          IN  IF ~chk.ok
              THEN RejectsAtOnce(call, chk.message)
              ELSE SendsAtOnce(call, contractMethod, args)
    /\ UNCHANGED <<wrapper, utilVars, verifyVars>>

UpdateContentURI == UpdateURI("updateContentURI", "updateTokenURI", TokenURIInputs)
UpdateMetadataURI == UpdateURI("updateMetadataURI", "updateTokenMetadataURI", MetadataURIInputs)

MintChecksSkippingTokenURI(w, data, bidShares) ==
    LET c1 == ensureNotReadOnly(w)
        c2 == validateURI(data.metadataURI)
    IN  IF ~c1.ok THEN c1
        ELSE IF ~c2.ok THEN c2
        ELSE validateBidShares(bidShares.creator, bidShares.owner, bidShares.prevOwner)

\* The checks of mint and mintWithSig, in the code's order: the first that
\* throws decides the rejection.
MintChecks(w, data, bidShares) ==
    LET c1 == ensureNotReadOnly(w)
        c2 == validateURI(data.metadataURI)
        c3 == validateURI(data.tokenURI)
    IN  IF ~c1.ok THEN c1
        ELSE IF ~c2.ok THEN c2
        ELSE IF ~c3.ok THEN c3
        ELSE validateBidShares(bidShares.creator, bidShares.owner, bidShares.prevOwner)

\* A padding that rounds the tenth of the estimate up.
PaddedEstimateRoundedUp(gasEstimate) == NatToString((gasEstimate * 110 + 99) \div 100)

\* gasEstimate.mul(110).div(100), as the decimal string passed for gasLimit.
PaddedEstimate(gasEstimate) == NatToString((gasEstimate * 110) \div 100)

\* After the checks of mint and mintMultiple: the gas estimate is asked for
\* and awaited.
EstimateAwaited(call) ==
    Suspends(call,
             <<ContractCall(call.id, "estimateGas." \o call.method, call.args, Pending)>>,
             "estimateGas." \o call.method)

\* After the await of the suspended call c: a rejected estimate rejects the
\* call; otherwise the transaction is sent with the padded limit.
EstimateThenSend(c) ==
    \E est \in GasOutcomes, out \in TxOutcomes :
        LET answered == AnswerPending(contractLog, c.call.id, est)
        IN  /\ sdkCall' = c.call
            /\ inFlight' = inFlight \ {c}
            /\ IF est.state = "rejected"
               THEN /\ sdkResult' = est
                    /\ contractLog' = answered
                    /\ contractCount' = contractCount
               ELSE /\ sdkResult' = out
                    /\ contractLog' =
                          Append(answered,
                                 ContractCall(c.call.id, c.call.method,
                                     [data |-> c.call.args.data,
                                      bidShares |-> c.call.args.bidShares,
                                      overrides |->
                                          [gasLimit |-> PaddedEstimate(est.value)]],
                                     out))
                    /\ contractCount' = contractCount + 1

\* The estimate of a suspended mint or mintMultiple is answered.
EstimateAnswered ==
    /\ \E c \in inFlight :
          /\ c.awaiting \in {"estimateGas.mint", "estimateGas.mintMultiple"}
          /\ EstimateThenSend(c)
    /\ UNCHANGED <<wrapper, utilVars, verifyVars>>

Mint ==
    /\ CanCall("mint")
    /\ \E data \in DataInputs, bidShares \in BidSharesInputs :
          LET call == SdkCallOf("mint", [data |-> data, bidShares |-> bidShares])
              chk == MintChecks(wrapper, data, bidShares)
          IN  IF ~chk.ok
              THEN RejectsAtOnce(call, chk.message)
              ELSE EstimateAwaited(call)
    /\ UNCHANGED <<wrapper, utilVars, verifyVars>>

MintWithSig ==
    /\ CanCall("mintWithSig")
    /\ \E data \in DataInputs, bidShares \in BidSharesInputs :
          LET args == [creator |-> ChecksummedA, data |-> data, bidShares |-> bidShares,
                       sig |-> TheSig]
              call == SdkCallOf("mintWithSig", args)
              chk == MintChecks(wrapper, data, bidShares)
          IN  IF ~chk.ok
              THEN RejectsAtOnce(call, chk.message)
              ELSE SendsAtOnce(call, "mintWithSig", args)
    /\ UNCHANGED <<wrapper, utilVars, verifyVars>>

\* Reading .creator of bidShares[index] when the array has no such element.
UndefinedBidSharesMessage == "Cannot read properties of undefined (reading 'creator')"

\* The callback of itemData.map in mintMultiple, run for the elements from
\* index i on: it checks itemData[i] against bidShares[i], and stops at the
\* first throw.  Elements of bidShares beyond the length of itemData are
\* never visited.
RECURSIVE MintMultipleMap(_, _, _)
MintMultipleMap(itemData, bidShares, i) ==
    IF i > Len(itemData) THEN Ok
    ELSE LET c1 == validateURI(itemData[i].metadataURI)
             c2 == validateURI(itemData[i].tokenURI)
             c3 == IF i > Len(bidShares) THEN Threw(UndefinedBidSharesMessage)
                   ELSE validateBidShares(bidShares[i].creator, bidShares[i].owner,
                                          bidShares[i].prevOwner)
         IN  IF ~c1.ok THEN c1
             ELSE IF ~c2.ok THEN c2
             ELSE IF ~c3.ok THEN c3
             ELSE MintMultipleMap(itemData, bidShares, i + 1)

\* The elements the arrays of mintMultiple are drawn from.
BatchDataInputs == {d \in DataInputs : d.metadataURI = GoodMetadataURI}
BatchBidSharesInputs == {ValidBidShares, ShortBidShares}

MintMultipleChecks(w, itemData, bidShares) ==
    LET c1 == ensureNotReadOnly(w)
    IN  IF ~c1.ok THEN c1 ELSE MintMultipleMap(itemData, bidShares, 1)

MintMultiple ==
    /\ CanCall("mintMultiple")
    /\ \E itemData \in SeqsUpTo(BatchDataInputs, MaxBatch),
          bidShares \in SeqsUpTo(BatchBidSharesInputs, MaxBatch) :
          LET call == SdkCallOf("mintMultiple", [data |-> itemData, bidShares |-> bidShares])
              chk == MintMultipleChecks(wrapper, itemData, bidShares)
          IN  IF ~chk.ok
              THEN RejectsAtOnce(call, chk.message)
              ELSE EstimateAwaited(call)
    /\ UNCHANGED <<wrapper, utilVars, verifyVars>>

NextAsset ==
    \/ Construct
    \/ UpdateContentURI
    \/ UpdateMetadataURI
    \/ UpdateIsDefault
    \/ Mint
    \/ MintMultiple
    \/ MintWithSig
    \/ SetAsk
    \/ SetBid
    \/ RemoveAsk
    \/ RemoveBid
    \/ AcceptBid
    \/ Permit
    \/ RevokeApproval
    \/ Burn
    \/ Approve
    \/ SetApprovalForAll
    \/ SetApprovalForAllCustom
    \/ EnvironmentLoaded
    \/ EstimateAnswered
    \/ TransferFrom
    \/ SafeTransferFrom

SpecAsset == InitAsset /\ [][NextAsset]_vars

(***************************************************************************)
(* Claims about the asset wrappers, checked under SpecAsset.               *)
(***************************************************************************)
SumsTo100(bidShares) ==
    BNToString(BidSharesSum(bidShares.creator, bidShares.owner, bidShares.prevOwner))
        = "100000000000000000000"

\* The bid-share triples a contract call carries.
BidSharesIn(entry) ==
    IF "bidShares" \notin DOMAIN entry.args THEN {}
    ELSE IF entry.method \in {"mintMultiple", "estimateGas.mintMultiple"}
         THEN {entry.args.bidShares[i] : i \in 1..Len(entry.args.bidShares)}
         ELSE {entry.args.bidShares}

\* The content and metadata URIs a contract call carries.
URIsIn(entry) ==
    IF "uri" \in DOMAIN entry.args THEN {entry.args.uri}
    ELSE IF "data" \notin DOMAIN entry.args THEN {}
    ELSE IF entry.method \in {"mintMultiple", "estimateGas.mintMultiple"}
         THEN UNION {{entry.args.data[i].tokenURI, entry.args.data[i].metadataURI} :
                        i \in 1..Len(entry.args.data)}
         ELSE {entry.args.data.tokenURI, entry.args.data.metadataURI}

LogEntries == {contractLog[i] : i \in 1..Len(contractLog)}

(***************************************************************************)
(* C2.  Every bid-share triple that mint, mintWithSig or mintMultiple      *)
(* passes on to gas estimation or to the contract sums to 100 * 10^18,     *)
(* whatever the lengths of the arrays given to mintMultiple.               *)
(* The code breaks it: mintMultiple checks bidShares[index] only for the   *)
(* indices of itemData, so the elements of a longer bidShares array reach  *)
(* estimateGas.mintMultiple unchecked.                                     *)
(***************************************************************************)
C2_ForwardedBidSharesSumTo100 ==
    \A entry \in LogEntries : \A bidShares \in BidSharesIn(entry) : SumsTo100(bidShares)

(***************************************************************************)
(* C8.  A wrapper constructed with a provider that is not a signer is      *)
(* readOnly and never invokes a contract method: each of its write         *)
(* methods rejects with the ensureNotReadOnly message before touching the  *)
(* contract.  A wrapper constructed with a signer is not readOnly and the  *)
(* check never rejects its calls.                                          *)
(***************************************************************************)
WriteMethods == UNION {MethodsOf(kind) : kind \in Kinds}

C8_ReadOnlyNeverWrites ==
    wrapper # NoWrapper =>
        /\ wrapper.readOnly = ~wrapper.signerOrProvider.isSigner
        /\ ~wrapper.signerOrProvider.isSigner =>
              /\ contractCount = 0
              /\ contractLog = <<>>
              /\ sdkCall.method \in WriteMethods =>
                    sdkResult = Rejected(
                        "ensureNotReadOnly: readOnly Motif instance cannot call contract methods that require a signer.")
        /\ wrapper.signerOrProvider.isSigner =>
              /\ sdkResult # Rejected(ReadOnlyMessage)
              /\ \A entry \in LogEntries : entry.asSigner

\* A provider-backed wrapper has had setAsk rejected, and made no contract call.
C8_Witness ==
    /\ wrapper # NoWrapper
    /\ ~wrapper.signerOrProvider.isSigner
    /\ sdkCall.method = "setAsk"
    /\ sdkResult = Rejected(ReadOnlyMessage)
    /\ contractCount = 0

(***************************************************************************)
(* C9.  Every content or metadata URI a wrapper forwards to the contract   *)
(* begins with https://, and a call with a URI lacking the prefix makes no *)
(* contract call.                                                          *)
(***************************************************************************)
URIMethods == {"updateContentURI", "updateMetadataURI", "mint", "mintWithSig", "mintMultiple"}

\* The URIs of the last SDK call, in the order the code checks them.
CheckedURIs ==
    IF sdkCall.method \in {"updateContentURI", "updateMetadataURI"} THEN <<sdkCall.args.uri>>
    ELSE IF sdkCall.method \in {"mint", "mintWithSig"}
         THEN <<sdkCall.args.data.metadataURI, sdkCall.args.data.tokenURI>>
    ELSE IF sdkCall.method = "mintMultiple"
         THEN [i \in 1..(2 * Len(sdkCall.args.data)) |->
                  IF i % 2 = 1 THEN sdkCall.args.data[(i + 1) \div 2].metadataURI
                  ELSE sdkCall.args.data[i \div 2].tokenURI]
    ELSE <<>>

BadURIIndexes == {i \in 1..Len(CheckedURIs) : ~StartsWithHttps(CheckedURIs[i])}

CallHasBadURI == sdkCall.method \in URIMethods /\ BadURIIndexes # {}

FirstBadURI == CheckedURIs[CHOOSE i \in BadURIIndexes : \A j \in BadURIIndexes : i <= j]

\* The rejection the tests expect for the two malformed URIs of the model.
ExpectedURIRejection(uri) ==
    IF uri = <<"h", "t", "t", "p", ":", "/", "/", "t">>
    THEN "Invariant failed: http://t must begin with " \o QuotedHttps
    ELSE "Invariant failed: ipfs://m must begin with " \o QuotedHttps

\* The claim as stated: any call with a malformed URI rejects with the URI
\* message.  A readOnly wrapper rejects it with the ensureNotReadOnly
\* message instead, and mintMultiple with the message of an earlier
\* element's bid shares.
C9_BadURIRejectsWithURIMessage ==
    /\ \A entry \in LogEntries : \A uri \in URIsIn(entry) : StartsWithHttps(uri)
    /\ CallHasBadURI =>
          /\ CallLog = <<>>
          /\ \E i \in BadURIIndexes : sdkResult = Rejected(ExpectedURIRejection(CheckedURIs[i]))

\* In mintMultiple, the elements before the first malformed URI whose bid
\* shares are missing or do not sum to 100%.
EarlierBidSharesFail ==
    /\ sdkCall.method = "mintMultiple"
    /\ \E k \in 1..Len(sdkCall.args.data) :
          /\ ~StartsWithHttps(sdkCall.args.data[k].metadataURI)
                \/ ~StartsWithHttps(sdkCall.args.data[k].tokenURI)
          /\ \A j \in 1..(k - 1) :
                /\ StartsWithHttps(sdkCall.args.data[j].metadataURI)
                /\ StartsWithHttps(sdkCall.args.data[j].tokenURI)
          /\ \E j \in 1..(k - 1) :
                \/ j > Len(sdkCall.args.bidShares)
                \/ ~SumsTo100(sdkCall.args.bidShares[j])

BidSharesRejections ==
    {"Invariant failed: The BidShares sum to 90000000000000000000, but they must sum to 100000000000000000000",
     "Cannot read properties of undefined (reading 'creator')"}

C9_ForwardedURIsAreHttps ==
    /\ \A entry \in LogEntries : \A uri \in URIsIn(entry) : StartsWithHttps(uri)
    /\ CallHasBadURI =>
          /\ CallLog = <<>>
          /\ sdkResult.state = "rejected"
          /\ wrapper.readOnly => sdkResult.reason = ReadOnlyMessage
          /\ (~wrapper.readOnly /\ ~EarlierBidSharesFail) =>
                sdkResult.reason = ExpectedURIRejection(FirstBadURI)
          /\ (~wrapper.readOnly /\ EarlierBidSharesFail) =>
                sdkResult.reason \in BidSharesRejections

\* A signer-backed wrapper has rejected a mint whose tokenURI is http://...
\* and another has forwarded a mint whose URIs are both https://.
C9_Witness ==
    /\ wrapper # NoWrapper /\ ~wrapper.readOnly
    /\ sdkCall.method = "mint"
    /\ sdkCall.args.data.tokenURI = BadTokenURI
    /\ sdkCall.args.data.metadataURI = GoodMetadataURI
    /\ sdkResult = Rejected("Invariant failed: http://t must begin with " \o QuotedHttps)
    /\ CallLog = <<>>

(***************************************************************************)
(* Bytes and hex strings.  A BytesLike value is a string or an array of    *)
(* numbers; the model tags which, and keeps the characters or the numbers  *)
(* as a sequence.                                                          *)
(***************************************************************************)
HexString(cs) == [type |-> "string", items |-> cs]
ByteArray(bs) == [type |-> "bytes", items |-> bs]

Returned(value) == [ok |-> TRUE, value |-> value]

HexDigits ==
    <<"0", "1", "2", "3", "4", "5", "6", "7", "8", "9", "a", "b", "c", "d", "e", "f">>
UpperHexDigits ==
    <<"0", "1", "2", "3", "4", "5", "6", "7", "8", "9", "A", "B", "C", "D", "E", "F">>
HexChars == {HexDigits[i] : i \in 1..16} \cup {UpperHexDigits[i] : i \in 1..16}

HexPrefix == <<"0", "x">>

\* isHexString of @ethersproject/bytes, called without a length: a string
\* that is 0x followed by any number of hex digits of either case.
isHexString(value) ==
    /\ value.type = "string"
    /\ Len(value.items) >= 2
    /\ SubSeq(value.items, 1, 2) = HexPrefix
    /\ \A i \in 3..Len(value.items) : value.items[i] \in HexChars

\* isBytes of @ethersproject/bytes for an array: every element an integer
\* in 0..255.
isBytes(value) ==
    /\ value.type = "bytes"
    /\ \A i \in 1..Len(value.items) : value.items[i] \in 0..255

\* String.prototype.toLowerCase on the characters a hex string can hold.
ToLowerHex(c) ==
    CASE c = "A" -> "a" [] c = "B" -> "b" [] c = "C" -> "c" [] c = "D" -> "d"
      [] c = "E" -> "e" [] c = "F" -> "f" [] c = "X" -> "x" [] OTHER -> c

ByteToHex(b) == <<HexDigits[(b \div 16) + 1], HexDigits[(b % 16) + 1]>>

RECURSIVE BytesToHex(_)
BytesToHex(bs) ==
    IF bs = <<>> THEN <<>> ELSE ByteToHex(Head(bs)) \o BytesToHex(Tail(bs))

HexValue(c) == CHOOSE v \in 0..15 : HexDigits[v + 1] = c \/ UpperHexDigits[v + 1] = c

RECURSIVE HexToBytes(_)
HexToBytes(cs) ==
    IF Len(cs) < 2 THEN <<>>
    ELSE <<HexValue(cs[1]) * 16 + HexValue(cs[2])>> \o HexToBytes(Tail(Tail(cs)))

OddLengthMessage == "hex data is odd-length"
InvalidHexlifyMessage == "invalid hexlify value"

\* hexlify that keeps the case of the digits it is given.
HexlifyKeepingCase(value) ==
    IF isHexString(value)
    THEN IF Len(value.items) % 2 = 1 THEN Threw(OddLengthMessage)
         ELSE Returned(value.items)
    ELSE IF isBytes(value) THEN Returned(HexPrefix \o BytesToHex(value.items))
    ELSE Threw(InvalidHexlifyMessage)

\* hexlify of @ethersproject/bytes on a BytesLike: a hex string is returned
\* in lower case, unless it has an odd number of characters; an array of
\* bytes is written as 0x and two lower-case digits a byte; anything else
\* throws.  The messages are the ones ethers starts its errors with.
hexlify(value) ==
    IF isHexString(value)
    THEN IF Len(value.items) % 2 = 1 THEN Threw(OddLengthMessage)
         ELSE Returned([i \in 1..Len(value.items) |-> ToLowerHex(value.items[i])])
    ELSE IF isBytes(value) THEN Returned(HexPrefix \o BytesToHex(value.items))
    ELSE Threw(InvalidHexlifyMessage)

(***************************************************************************)
(* SHA-256.  The bodies a server of the model answers with are the empty   *)
(* body and the three bytes of "abc"; Sha256 is the table of their         *)
(* digests.                                                                *)
(***************************************************************************)
BodyEmpty == <<>>
BodyAbc == <<97, 98, 99>>
Bodies == {BodyEmpty, BodyAbc}

DigestOfEmpty ==
    <<227, 176, 196, 66, 152, 252, 28, 20, 154, 251, 244, 200, 153, 111, 185, 36,
      39, 174, 65, 228, 100, 155, 147, 76, 164, 149, 153, 27, 120, 82, 184, 85>>
DigestOfAbc ==
    <<186, 120, 22, 191, 143, 1, 207, 234, 65, 65, 64, 222, 93, 174, 34, 35,
      176, 3, 97, 163, 150, 23, 122, 156, 180, 16, 255, 97, 242, 0, 21, 173>>

Sha256(bytes) ==
    CASE bytes = BodyEmpty -> DigestOfEmpty
      [] bytes = BodyAbc -> DigestOfAbc

\* sha256FromBuffer: the buffer is written as hex, read back as bits,
\* hashed, and the digest written as 0x and lower-case hex.
sha256FromBuffer(buffer) ==
    HexPrefix \o BytesToHex(Sha256(HexToBytes(BytesToHex(buffer))))

(***************************************************************************)
(* HTTP.  axios.get answers a request in one of three ways: a response     *)
(* with a status and a body, a network error, or a timeout.  Its promise   *)
(* resolves on a status validateStatus accepts and rejects otherwise, with *)
(* the messages axios gives its errors.                                    *)
(***************************************************************************)
Response(status, data) == [kind |-> "response", status |-> status, data |-> data]
NetworkError == [kind |-> "networkError"]
TimedOut == [kind |-> "timeout"]

HttpOutcomes ==
    {Response(200, BodyAbc), Response(200, BodyEmpty), Response(404, BodyAbc),
     Response(500, BodyEmpty), NetworkError, TimedOut}

validateStatus(status) == status >= 200 /\ status < 300

axiosGet(outcome, timeout) ==
    CASE outcome.kind = "response" ->
           IF validateStatus(outcome.status)
           THEN Returned([status |-> outcome.status, data |-> outcome.data])
           ELSE Threw("Request failed with status code " \o NatToString(outcome.status))
      [] outcome.kind = "networkError" -> Threw("Network Error")
      [] outcome.kind = "timeout" ->
           Threw("timeout of " \o NatToString(timeout) \o "ms exceeded")

\* The timeout parameter of the verifiers, in the unit axios reads it in.
DefaultTimeout == 10
NoTimeout == [given |-> FALSE]
Timeout(ms) == [given |-> TRUE, ms |-> ms]
EffectiveTimeout(t) == IF t.given THEN t.ms ELSE DefaultTimeout

GetRequest(id, leg, uri, timeout) ==
    [call |-> id, leg |-> leg, uri |-> uri, timeout |-> timeout,
     responseType |-> "arraybuffer", outcome |-> Pending, waited |-> 0]

(***************************************************************************)
(* isURIHashVerified.  Up to its await the function validates the uri and  *)
(* issues the request; after it, it hashes the body and compares the       *)
(* digest with the normalized expected hash.  Whatever is thrown on the    *)
(* way is caught and becomes a rejection with the message of the error.    *)
(***************************************************************************)
\* A verifier that answers false when the fetch failed.
FetchFailureResolvesFalse(expectedHash, outcome, timeout) ==
    LET resp == axiosGet(outcome, timeout) IN
    IF ~resp.ok THEN Resolved(FALSE)
    ELSE LET uriHash == sha256FromBuffer(resp.value.data)
             normalizedExpectedHash == hexlify(expectedHash)
         IN  IF ~normalizedExpectedHash.ok THEN Rejected(normalizedExpectedHash.message)
             ELSE Resolved(uriHash = normalizedExpectedHash.value)

isURIHashVerifiedAfterGet(expectedHash, outcome, timeout) ==
    LET resp == axiosGet(outcome, timeout) IN
    IF ~resp.ok THEN Rejected(resp.message)
    ELSE LET uriHash == sha256FromBuffer(resp.value.data)
             normalizedExpectedHash == hexlify(expectedHash)
         IN  IF ~normalizedExpectedHash.ok THEN Rejected(normalizedExpectedHash.message)
             ELSE Resolved(uriHash = normalizedExpectedHash.value)

(***************************************************************************)
(* The record verifiers isItemDataVerified, isAvatarDataVerified,          *)
(* isSpaceDataVerified and isLandDataVerified have the same body: await    *)
(* the content leg, await the metadata leg, return the conjunction.  An    *)
(* await of a rejected leg throws out of the async function, whose promise *)
(* then rejects with the reason of the leg.                                *)
(***************************************************************************)
RecordVerifiers ==
    {"isItemDataVerified", "isAvatarDataVerified", "isSpaceDataVerified",
     "isLandDataVerified"}

CombineLegsWithOr(isTokenURIVerified, isMetadataURIVerified) ==
    isTokenURIVerified \/ isMetadataURIVerified

CombineLegs(isTokenURIVerified, isMetadataURIVerified) ==
    isTokenURIVerified /\ isMetadataURIVerified

\* A record verifier that takes a rejected leg for a leg that answered false.
RecordStepIgnoringRejection(leg, legs, r) ==
    LET ValueOf(l) == l.state = "resolved" /\ l.value IN
    IF leg = 1 THEN [do |-> "next", result |-> Pending]
    ELSE [do |-> "settle",
          result |-> Resolved(CombineLegs(ValueOf(legs[1]), ValueOf(r)))]

\* What a record verifier does when the leg it awaits settles with r; legs
\* holds the results of the legs before it.
RecordStep(leg, legs, r) ==
    IF r.state = "rejected" THEN [do |-> "settle", result |-> r]
    ELSE IF leg = 1 THEN [do |-> "next", result |-> Pending]
    ELSE [do |-> "settle", result |-> Resolved(CombineLegs(legs[1].value, r.value))]

\* A verification call: the function and its arguments, the leg it is in,
\* the results of the legs that settled, and how the call itself settled.
NewCall(fn, args) ==
    [fn |-> fn, args |-> args, leg |-> 1, legs |-> <<>>, result |-> Pending]

LegURI(c, leg) ==
    IF c.fn = "isURIHashVerified" THEN c.args.uri
    ELSE IF leg = 1 THEN c.args.data.tokenURI ELSE c.args.data.metadataURI

LegHash(c, leg) ==
    IF c.fn = "isURIHashVerified" THEN c.args.expectedHash
    ELSE IF leg = 1 THEN c.args.data.contentHash ELSE c.args.data.metadataHash

\* EnterLeg: isURIHashVerified is called for a leg and runs up to its await.
\* AfterLeg: the leg settled with r, and its caller goes on.  Both give the
\* call as it is afterwards and the requests issued on the way.
RECURSIVE EnterLeg(_, _, _)
\* A verifier that tries a leg once more when it was rejected.
AfterLegRetrying(id, c, leg, r) ==
    LET done == [c EXCEPT !.legs = Append(@, r)] IN
    IF r.state = "rejected" /\ Len(c.legs) < leg
    THEN EnterLeg(id, done, leg)
    ELSE IF c.fn = "isURIHashVerified"
    THEN [call |-> [done EXCEPT !.result = r], issued |-> <<>>]
    ELSE LET step == RecordStep(leg, c.legs, r) IN
         IF step.do = "settle"
         THEN [call |-> [done EXCEPT !.result = step.result], issued |-> <<>>]
         ELSE EnterLeg(id, done, leg + 1)

AfterLeg(id, c, leg, r) ==
    LET done == [c EXCEPT !.legs = Append(@, r)] IN
    IF c.fn = "isURIHashVerified"
    THEN [call |-> [done EXCEPT !.result = r], issued |-> <<>>]
    ELSE LET step == RecordStep(leg, c.legs, r) IN
         IF step.do = "settle"
         THEN [call |-> [done EXCEPT !.result = step.result], issued |-> <<>>]
         ELSE EnterLeg(id, done, leg + 1)

EnterLeg(id, c, leg) ==
    LET checked == validateURI(LegURI(c, leg))
        at == [c EXCEPT !.leg = leg]
    IN  IF checked.ok
        THEN [call |-> at,
              issued |-> <<GetRequest(id, leg, LegURI(c, leg),
                                      EffectiveTimeout(c.args.timeout))>>]
        ELSE AfterLeg(id, at, leg, Rejected(checked.message))

\* A record verifier that starts both legs before it awaits either.
RecordVerifierCalledBothLegs(id, c) ==
    LET content == EnterLeg(id, c, 1)
        metadata == EnterLeg(id, c, 2)
    IN  [call |-> content.call, issued |-> content.issued \o metadata.issued]

\* A record verifier is called: it calls isURIHashVerified for the content
\* leg and awaits it.
RecordVerifierCalled(id, c) == EnterLeg(id, c, 1)

(***************************************************************************)
(* SpecVerify: a verification call is made, the requests it issued are     *)
(* answered by the network, and the call resumes after each answer until   *)
(* it has settled.                                                         *)
(***************************************************************************)
ToUpperHex(c) == IF c \in HexChars THEN UpperHexDigits[HexValue(c) + 1] ELSE c

LowerHex(bytes) == HexString(HexPrefix \o BytesToHex(bytes))
UpperHex(bytes) ==
    HexString(HexPrefix \o [i \in 1..(2 * Len(bytes)) |-> ToUpperHex(BytesToHex(bytes)[i])])

NotHex == HexString(<<"a", "b", "c">>)
OddHex == HexString(<<"0", "x", "a", "b", "c">>)

HashInputs ==
    {LowerHex(DigestOfAbc), UpperHex(DigestOfAbc), ByteArray(DigestOfAbc),
     LowerHex(DigestOfEmpty), NotHex, OddHex}

TimeoutInputs == {NoTimeout, Timeout(3), Timeout(0)}

VerifyDataInputs ==
    {[tokenURI |-> t, metadataURI |-> m, contentHash |-> ch, metadataHash |-> mh] :
        t \in TokenURIInputs, m \in MetadataURIInputs,
        ch \in {LowerHex(DigestOfAbc), ByteArray(DigestOfAbc)},
        mh \in {LowerHex(DigestOfEmpty), UpperHex(DigestOfEmpty), NotHex}}

\* SpecVerify follows one call from its start to its end.
SoloCallIds == {1}

InitVerify ==
    /\ UtilIdle
    /\ AssetIdle
    /\ VerifyIdle

CallIsURIHashVerified(id) ==
    /\ id = Len(calls) + 1
    /\ \E uri \in TokenURIInputs, expectedHash \in HashInputs, timeout \in TimeoutInputs :
         LET c == NewCall("isURIHashVerified",
                          [uri |-> uri, expectedHash |-> expectedHash, timeout |-> timeout])
             e == EnterLeg(id, c, 1)
         IN  /\ calls' = Append(calls, e.call)
             /\ requests' = requests \o e.issued
    /\ UNCHANGED <<utilVars, assetVars>>

CallRecordVerifier(id) ==
    /\ id = Len(calls) + 1
    /\ \E fn \in RecordVerifiers, data \in VerifyDataInputs, timeout \in TimeoutInputs :
         LET c == NewCall(fn, [data |-> data, timeout |-> timeout])
             e == RecordVerifierCalled(id, c)
         IN  /\ calls' = Append(calls, e.call)
             /\ requests' = requests \o e.issued
    /\ UNCHANGED <<utilVars, assetVars>>

\* A request whose timer is never started: no timeout of axios ever fires.
TimerNeverArmed(timeout) == FALSE

\* axios starts the timer of a request if (config.timeout): 0 means that the
\* request has no timeout.
TimerArmed(timeout) == timeout # 0

\* What the server or the network answers, when it does.
ServerOutcomes == HttpOutcomes \ {TimedOut}

\* The server answers a request that is outstanding, or the connection fails.
HttpResponds ==
    /\ \E i \in 1..Len(requests), outcome \in ServerOutcomes :
         /\ requests[i].outcome = Pending
         /\ requests' = [requests EXCEPT ![i].outcome = outcome]
    /\ UNCHANGED <<calls, utilVars, assetVars>>

\* The timer of a request that is outstanding runs out, and axios aborts
\* it: the request has then waited for the milliseconds of its timeout.
TimeoutFires ==
    /\ \E i \in 1..Len(requests) :
         /\ requests[i].outcome = Pending
         /\ TimerArmed(requests[i].timeout)
         /\ requests' = [requests EXCEPT ![i].outcome = TimedOut,
                                          ![i].waited = requests[i].timeout]
    /\ UNCHANGED <<calls, utilVars, assetVars>>

\* A request that is outstanding settles.
HttpSettles == HttpResponds \/ TimeoutFires

\* A verifier that keeps the last response in a place all calls share: a
\* call resumes with the answer to any request of its leg, its own or not.
ResumeCallWithSharedResponse(id) ==
    /\ id \in 1..Len(calls)
    /\ calls[id].result = Pending
    /\ \E i \in 1..Len(requests) :
         /\ requests[i].leg = calls[id].leg
         /\ requests[i].outcome # Pending
         /\ \E r \in {isURIHashVerifiedAfterGet(LegHash(calls[id], calls[id].leg),
                                                  requests[i].outcome,
                                                  requests[i].timeout)} :
              \E e \in {AfterLeg(id, calls[id], calls[id].leg, r)} :
                 /\ calls' = [calls EXCEPT ![id] = e.call]
                 /\ requests' = requests \o e.issued

\* The request a call awaits has been answered, and the call resumes.
ResumeCall(id) ==
    /\ id \in 1..Len(calls)
    /\ calls[id].result = Pending
    /\ \E i \in 1..Len(requests) :
         /\ requests[i].call = id
         /\ requests[i].leg = calls[id].leg
         /\ requests[i].outcome # Pending
         /\ \E r \in {isURIHashVerifiedAfterGet(LegHash(calls[id], calls[id].leg),
                                                  requests[i].outcome,
                                                  requests[i].timeout)} :
              \E e \in {AfterLeg(id, calls[id], calls[id].leg, r)} :
                 /\ calls' = [calls EXCEPT ![id] = e.call]
                 /\ requests' = requests \o e.issued

Resume(id) ==
    /\ ResumeCall(id)
    /\ UNCHANGED <<utilVars, assetVars>>

NextVerify ==
    \/ \E id \in SoloCallIds : CallIsURIHashVerified(id)
    \/ \E id \in SoloCallIds : CallRecordVerifier(id)
    \/ HttpSettles
    \/ \E id \in SoloCallIds : Resume(id)

SpecVerify == InitVerify /\ [][NextVerify]_vars

\* FairVerify: a timer that was started runs out unless the request settles
\* before, and a call whose request has settled goes on.  The server is not
\* bound to answer.
FairVerify ==
    /\ SpecVerify
    /\ WF_vars(TimeoutFires)
    /\ WF_vars(\E id \in SoloCallIds : Resume(id))

(***************************************************************************)
(* Claims about the content verifier, checked under SpecVerify.            *)
(***************************************************************************)
URICalls == {id \in 1..Len(calls) : calls[id].fn = "isURIHashVerified"}
RecordCalls == {id \in 1..Len(calls) : calls[id].fn \in RecordVerifiers}

Settled(id) == calls[id].result # Pending

RequestsOf(id, leg) ==
    {i \in 1..Len(requests) : requests[i].call = id /\ requests[i].leg = leg}

Answer(id, leg) == requests[CHOOSE i \in RequestsOf(id, leg) : TRUE].outcome

Answered(id, leg) == RequestsOf(id, leg) # {} /\ Answer(id, leg) # Pending

\* The request of the leg was answered, and with a 2xx status and a body.
Fetched(id, leg) ==
    /\ Answered(id, leg)
    /\ Answer(id, leg).kind = "response"
    /\ Answer(id, leg).status \in 200..299

\* The request of the leg was answered, and not with a 2xx status.
FetchFailed(id, leg) == Answered(id, leg) /\ ~Fetched(id, leg)

\* The hash is a byte array, or 0x and an even number of hex digits.
DenotesBytes(h) ==
    \/ /\ h.type = "bytes"
       /\ \A i \in 1..Len(h.items) : h.items[i] \in 0..255
    \/ /\ h.type = "string"
       /\ Len(h.items) >= 2
       /\ Len(h.items) % 2 = 0
       /\ h.items[1] = "0"
       /\ h.items[2] = "x"
       /\ \A i \in 3..Len(h.items) : h.items[i] \in HexChars

BytesDenoted(h) ==
    IF h.type = "bytes" THEN h.items ELSE HexToBytes(SubSeq(h.items, 3, Len(h.items)))

\* The digest of the body is the bytes the expected hash denotes, whatever
\* the form the hash is written in.
DigestMatches(h, body) == DenotesBytes(h) /\ BytesDenoted(h) = Sha256(body)

\* C3: when the fetch of an https URI succeeds, isURIHashVerified resolves
\* true if the SHA-256 digest of the body is the expected hash, and resolves
\* false if it is not; upper- and lower-case hex and a byte array of the
\* same 32 bytes give the same result.
C3_ResolvesDigestComparison ==
    \A id \in URICalls :
        (/\ Settled(id)
         /\ Fetched(id, 1)
         /\ DenotesBytes(calls[id].args.expectedHash))
        => calls[id].result =
             Resolved(DigestMatches(calls[id].args.expectedHash, Answer(id, 1).data))

\* C3 happens: an expected hash in upper-case hex, a body with that digest,
\* and the call resolved true.
C3_Witness ==
    \E id \in URICalls :
        /\ calls[id].args.expectedHash = UpperHex(DigestOfAbc)
        /\ Answered(id, 1)
        /\ Answer(id, 1) = Response(200, BodyAbc)
        /\ calls[id].result = Resolved(TRUE)

\* C4: a uri that is not https, a network error, a status outside 2xx and a
\* timeout each make isURIHashVerified reject; it resolves false only when
\* a body was fetched and its digest is not the expected hash.
C4_FetchProblemsReject ==
    \A id \in URICalls :
        Settled(id) =>
            /\ (~StartsWithHttps(calls[id].args.uri) \/ FetchFailed(id, 1))
                  => calls[id].result.state = "rejected"
            /\ calls[id].result = Resolved(FALSE)
                  => /\ Fetched(id, 1)
                     /\ ~DigestMatches(calls[id].args.expectedHash, Answer(id, 1).data)

\* C4 happens: the server answered 404 with a body whose digest is the
\* expected hash, and the call was rejected with the message of the error.
C4_Witness ==
    \E id \in URICalls :
        /\ calls[id].args.expectedHash = LowerHex(DigestOfAbc)
        /\ Answered(id, 1)
        /\ Answer(id, 1) = Response(404, BodyAbc)
        /\ calls[id].result = Rejected("Request failed with status code 404")

\* C5: when both fetches of a record verifier succeed, it resolves to the
\* conjunction of the two legs: true if the content digest is contentHash
\* and the metadata digest is metadataHash, false if either differs.
C5_RecordIsConjunctionOfLegs ==
    \A id \in RecordCalls :
        (/\ Settled(id)
         /\ Fetched(id, 1)
         /\ Fetched(id, 2)
         /\ DenotesBytes(calls[id].args.data.contentHash)
         /\ DenotesBytes(calls[id].args.data.metadataHash))
        => calls[id].result =
             Resolved(/\ DigestMatches(calls[id].args.data.contentHash, Answer(id, 1).data)
                      /\ DigestMatches(calls[id].args.data.metadataHash, Answer(id, 2).data))

\* C5 happens: the content matched, the metadata did not, and the record
\* verifier resolved false.
C5_Witness ==
    \E id \in RecordCalls :
        /\ calls[id].args.data.contentHash = ByteArray(DigestOfAbc)
        /\ calls[id].args.data.metadataHash = LowerHex(DigestOfEmpty)
        /\ Answered(id, 1)
        /\ Answer(id, 1) = Response(200, BodyAbc)
        /\ Answered(id, 2)
        /\ Answer(id, 2) = Response(200, BodyAbc)
        /\ calls[id].result = Resolved(FALSE)

\* C6: when the fetch of either leg fails, the record verifier rejects and
\* does not resolve false, also when the other leg completed with a
\* mismatch.
C6_FailedFetchRejectsRecord ==
    \A id \in RecordCalls :
        (Settled(id) /\ \E leg \in {1, 2} : FetchFailed(id, leg))
        => calls[id].result.state = "rejected"

\* C6 happens: the content was fetched and did not match, the metadata
\* fetch failed, and the record verifier was rejected.
C6_Witness ==
    \E id \in RecordCalls :
        /\ calls[id].args.data.contentHash = LowerHex(DigestOfAbc)
        /\ Answered(id, 1)
        /\ Answer(id, 1) = Response(200, BodyEmpty)
        /\ Len(calls[id].legs) >= 1
        /\ calls[id].legs[1] = Resolved(FALSE)
        /\ Answered(id, 2)
        /\ Answer(id, 2) = NetworkError
        /\ calls[id].result = Rejected("Network Error")

BothURIsHttps(id) ==
    /\ StartsWithHttps(calls[id].args.data.tokenURI)
    /\ StartsWithHttps(calls[id].args.data.metadataURI)

\* C7 as the specification states it: the two fetches of a record verifier
\* are issued concurrently, so by the time the content request has been
\* answered, and also when it has failed, the metadata request has been
\* issued.
C7_FetchesIssuedConcurrently ==
    \A id \in RecordCalls :
        (BothURIsHttps(id) /\ Answered(id, 1)) => RequestsOf(id, 2) # {}

\* C7 as the code has it: the two fetches are issued one after the other.
\* The metadata request is issued only once the content leg has resolved,
\* and when the content leg rejects the record verifier rejects with its
\* reason and the metadata request is never issued.
C7_FetchesIssuedInSequence ==
    \A id \in RecordCalls :
        /\ RequestsOf(id, 2) # {}
              => /\ Fetched(id, 1)
                 /\ Len(calls[id].legs) >= 1
                 /\ calls[id].legs[1].state = "resolved"
        /\ (Len(calls[id].legs) >= 1 /\ calls[id].legs[1].state = "rejected")
              => /\ RequestsOf(id, 2) = {}
                 /\ calls[id].result = calls[id].legs[1]

\* C7 happens: both uris are https, the content request timed out, the
\* record verifier was rejected, and no metadata request was issued.
C7_Witness ==
    \E id \in RecordCalls :
        /\ BothURIsHttps(id)
        /\ Answered(id, 1)
        /\ Answer(id, 1) = TimedOut
        /\ calls[id].result = Rejected("timeout of 10ms exceeded")
        /\ RequestsOf(id, 2) = {}

(***************************************************************************)
(* The type constructors of utils.ts and the validators they call.         *)
(***************************************************************************)
Bytes32Length == 32

\* hexDataLength of @ethersproject/bytes on a string: null unless the string
\* is a hex string with an even number of digits, else its number of bytes.
hexDataLength(data) ==
    IF ~isHexString(data) \/ Len(data.items) % 2 = 1
    THEN [isNull |-> TRUE, length |-> 0]
    ELSE [isNull |-> FALSE, length |-> (Len(data.items) - 2) \div 2]

\* hexDataLength(...) == 32, which is false for null.
IsBytes32Length(l) == ~l.isNull /\ l.length = Bytes32Length

\* validateBytes32 that takes a byte array of any length.
ValidateBytes32AnyArray(value) ==
    IF value.type = "string"
    THEN IF isHexString(value) /\ IsBytes32Length(hexDataLength(value)) THEN Ok
         ELSE InvariantFailed(Join(value.items)
                              \o " is not a 0x prefixed 32 bytes hex string")
    ELSE LET hex == hexlify(value) IN
         IF ~hex.ok THEN hex ELSE Ok

validateBytes32(value) ==
    IF value.type = "string"
    THEN IF isHexString(value) /\ IsBytes32Length(hexDataLength(value)) THEN Ok
         ELSE InvariantFailed(Join(value.items)
                              \o " is not a 0x prefixed 32 bytes hex string")
    ELSE LET hex == hexlify(value) IN
         IF ~hex.ok THEN hex
         ELSE IF IsBytes32Length(hexDataLength(HexString(hex.value))) THEN Ok
         ELSE InvariantFailed("value is not a length 32 byte array")

DataConstructors ==
    {"constructItemData", "constructSpaceData", "constructAvatarData",
     "constructLandData"}

\* The fields a constructor adds to the two uris and the two hashes, from
\* the arguments it is given after them: constructSpaceData and
\* constructLandData store their fifth and sixth argument as they are;
\* constructItemData and constructAvatarData have four parameters, and a
\* further argument is ignored.
ExtraFields(fn, extra) ==
    CASE fn = "constructSpaceData" -> [isPublic |-> extra[1], lands |-> extra[2]]
      [] fn = "constructLandData" -> [xCoordinate |-> extra[1], yCoordinate |-> extra[2]]
      [] OTHER -> <<>>

\* A constructor that does not check the metadata uri.
ConstructDataSkippingMetadataURI(fn, tokenURI, metadataURI, contentHash, metadataHash, extra) ==
    LET c1 == validateBytes32(contentHash)
        c2 == validateBytes32(metadataHash)
        c3 == validateURI(tokenURI)
    IN  IF ~c1.ok THEN c1
        ELSE IF ~c2.ok THEN c2
        ELSE IF ~c3.ok THEN c3
        ELSE Returned([tokenURI |-> tokenURI, metadataURI |-> metadataURI,
                       contentHash |-> contentHash, metadataHash |-> metadataHash]
                      @@ ExtraFields(fn, extra))

\* constructItemData, constructSpaceData, constructAvatarData and
\* constructLandData: the four checks in the order of the code, the first
\* failure thrown, and the record returned when none failed.
ConstructData(fn, tokenURI, metadataURI, contentHash, metadataHash, extra) ==
    LET c1 == validateBytes32(contentHash)
        c2 == validateBytes32(metadataHash)
        c3 == validateURI(tokenURI)
        c4 == validateURI(metadataURI)
    IN  IF ~c1.ok THEN c1
        ELSE IF ~c2.ok THEN c2
        ELSE IF ~c3.ok THEN c3
        ELSE IF ~c4.ok THEN c4
        ELSE Returned([tokenURI |-> tokenURI, metadataURI |-> metadataURI,
                       contentHash |-> contentHash, metadataHash |-> metadataHash]
                      @@ ExtraFields(fn, extra))

(***************************************************************************)
(* Numbers.  A JavaScript number is NaN, an infinity, or a finite number,  *)
(* which the model keeps as a sign and a magnitude counted in hundred-     *)
(* thousandths, so that a fifth fractional digit and negative zero are     *)
(* there to be rounded.  The finite numbers of the model are ones whose    *)
(* double has the same rounding to four digits as the decimal: the fifth   *)
(* digit is not 5, or the number is a binary fraction and so exact.        *)
(***************************************************************************)
UnitsPerOne == 10 ^ 5

Finite(neg, units) == [kind |-> "finite", neg |-> neg, units |-> units]
NaN == [kind |-> "NaN", neg |-> FALSE, units |-> 0]
Infinity(neg) == [kind |-> "Infinity", neg |-> neg, units |-> 0]

\* x < 0 for a number: false for NaN and for negative zero.
IsNegative(x) ==
    \/ x.kind = "Infinity" /\ x.neg
    \/ x.kind = "finite" /\ x.neg /\ x.units > 0

RECURSIVE NatToDigits(_)
NatToDigits(n) ==
    IF n < 10 THEN <<DigitChar[n + 1]>>
    ELSE NatToDigits(n \div 10) \o <<DigitChar[(n % 10) + 1]>>

RECURSIVE ZeroPad(_, _)
ZeroPad(cs, width) == IF Len(cs) >= width THEN cs ELSE ZeroPad(<<"0">> \o cs, width)

InfinityLiteral == <<"I", "n", "f", "i", "n", "i", "t", "y">>
NaNLiteral == <<"N", "a", "N">>

\* toFixed that drops the digits after the last one it keeps.
ToFixedTruncating(x, fractionDigits) ==
    IF x.kind = "NaN" THEN NaNLiteral
    ELSE IF x.kind = "Infinity"
    THEN (IF x.neg THEN <<"-">> ELSE <<>>) \o InfinityLiteral
    ELSE LET scale == 10 ^ (5 - fractionDigits)
             n == x.units \div scale
             m == ZeroPad(NatToDigits(n), fractionDigits + 1)
             k == Len(m)
         IN  (IF IsNegative(x) THEN <<"-">> ELSE <<>>)
             \o SubSeq(m, 1, k - fractionDigits) \o <<".">>
             \o SubSeq(m, k - fractionDigits + 1, k)

\* Number.prototype.toFixed(fractionDigits), for 1 to 5 digits: a number
\* that is not finite is written by name; otherwise the sign is set aside
\* (negative zero has none), the magnitude is rounded to the nearest
\* multiple of the last digit kept, a tie going to the larger, and written
\* with a point before the fraction digits.
ToFixed(x, fractionDigits) ==
    IF x.kind = "NaN" THEN NaNLiteral
    ELSE IF x.kind = "Infinity"
    THEN (IF x.neg THEN <<"-">> ELSE <<>>) \o InfinityLiteral
    ELSE LET scale == 10 ^ (5 - fractionDigits)
             n == (2 * x.units + scale) \div (2 * scale)
             m == ZeroPad(NatToDigits(n), fractionDigits + 1)
             k == Len(m)
         IN  (IF IsNegative(x) THEN <<"-">> ELSE <<>>)
             \o SubSeq(m, 1, k - fractionDigits) \o <<".">>
             \o SubSeq(m, k - fractionDigits + 1, k)

DigitValue(c) == CHOOSE v \in 0..9 : DigitChar[v + 1] = c
IsDigit(c) == \E v \in 0..9 : DigitChar[v + 1] = c

RECURSIVE DigitsToNat(_)
DigitsToNat(cs) ==
    IF cs = <<>> THEN 0
    ELSE DigitsToNat(SubSeq(cs, 1, Len(cs) - 1)) * 10 + DigitValue(cs[Len(cs)])

RECURSIVE LeadingDigits(_)
LeadingDigits(cs) ==
    IF cs = <<>> \/ ~IsDigit(Head(cs)) THEN <<>>
    ELSE <<Head(cs)>> \o LeadingDigits(Tail(cs))

RECURSIVE PadRight(_, _)
PadRight(cs, width) == IF Len(cs) >= width THEN cs ELSE PadRight(cs \o <<"0">>, width)

\* parseFloat: an optional sign, then Infinity or the longest decimal
\* literal the string starts with (up to five fraction digits here); NaN
\* when there is neither.
ParseFloat(cs) ==
    LET neg == cs # <<>> /\ Head(cs) = "-"
        body == IF cs # <<>> /\ Head(cs) \in {"-", "+"} THEN Tail(cs) ELSE cs
        whole == LeadingDigits(body)
        rest == SubSeq(body, Len(whole) + 1, Len(body))
        fraction == IF rest # <<>> /\ Head(rest) = "." THEN LeadingDigits(Tail(rest))
                    ELSE <<>>
    IN  IF Len(body) >= 8 /\ SubSeq(body, 1, 8) = InfinityLiteral THEN Infinity(neg)
        ELSE IF whole = <<>> /\ fraction = <<>> THEN NaN
        ELSE Finite(neg, DigitsToNat(whole) * UnitsPerOne
                         + DigitsToNat(SubSeq(PadRight(fraction, 5), 1, 5)))

(***************************************************************************)
(* Decimal.new.  Decimal.ts is not among the sources; the specification    *)
(* describes it: the number is rounded to four fractional digits and       *)
(* scaled by 10^18, and a negative or non-finite number is refused with    *)
(* InvalidNumber.                                                          *)
(***************************************************************************)
\* The DecimalValue of m ten-thousandths: m * 10^14.
DecimalOfTenThousandths(m) ==
    [value |-> <<0, 0, (m * 100) % LimbBase, (m * 100) \div LimbBase>>]

DecimalNew(value) ==
    IF value.kind # "finite" \/ IsNegative(value) THEN Threw("InvalidNumber")
    ELSE Returned(DecimalOfTenThousandths((value.units + 5) \div 10))

\* The precision the constructors round percentages to.
FractionDigits == 4

\* parseFloat(x.toFixed(4)), with a toFixed that truncates.
TruncateToFourDigits(x) == ParseFloat(ToFixedTruncating(x, FractionDigits))

\* parseFloat(x.toFixed(4))
RoundToFourDigits(x) == ParseFloat(ToFixed(x, FractionDigits))

\* constructBidShares without its call of validateBidShares.
ConstructBidSharesUnchecked(creator, owner, prevOwner) ==
    LET decimalCreator == DecimalNew(RoundToFourDigits(creator))
        decimalOwner == DecimalNew(RoundToFourDigits(owner))
        decimalPrevOwner == DecimalNew(RoundToFourDigits(prevOwner))
    IN  IF ~decimalCreator.ok THEN decimalCreator
        ELSE IF ~decimalOwner.ok THEN decimalOwner
        ELSE IF ~decimalPrevOwner.ok THEN decimalPrevOwner
        ELSE Returned([creator |-> decimalCreator.value, owner |-> decimalOwner.value,
                       prevOwner |-> decimalPrevOwner.value])

constructBidShares(creator, owner, prevOwner) ==
    LET decimalCreator == DecimalNew(RoundToFourDigits(creator))
        decimalOwner == DecimalNew(RoundToFourDigits(owner))
        decimalPrevOwner == DecimalNew(RoundToFourDigits(prevOwner))
    IN  IF ~decimalCreator.ok THEN decimalCreator
        ELSE IF ~decimalOwner.ok THEN decimalOwner
        ELSE IF ~decimalPrevOwner.ok THEN decimalPrevOwner
        ELSE LET checked == validateBidShares(decimalCreator.value, decimalOwner.value,
                                              decimalPrevOwner.value)
             IN  IF ~checked.ok THEN checked
                 ELSE Returned([creator |-> decimalCreator.value,
                                owner |-> decimalOwner.value,
                                prevOwner |-> decimalPrevOwner.value])

\* constructBid: the three addresses are parsed in turn, a failure rethrown
\* under the name of the argument; then the share is converted.  The result,
\* a throw included, carries the warnings written on the way: an address
\* parsed before the step that throws has written its warning already.
constructBid(currency, amount, bidder, recipient, sellOnShare) ==
    LET parsedCurrency == validateAndParseAddress(currency)
        parsedBidder == validateAndParseAddress(bidder)
        parsedRecipient == validateAndParseAddress(recipient)
        decimalSellOnShare == DecimalNew(RoundToFourDigits(sellOnShare))
    IN  IF ~parsedCurrency.ok
        THEN ThrewAfter(<<>>, "Currency address is invalid: " \o parsedCurrency.message)
        ELSE IF ~parsedBidder.ok
        THEN ThrewAfter(parsedCurrency.warnings,
                        "Bidder address is invalid: " \o parsedBidder.message)
        ELSE IF ~parsedRecipient.ok
        THEN ThrewAfter(parsedCurrency.warnings \o parsedBidder.warnings,
                        "Recipient address is invalid: " \o parsedRecipient.message)
        ELSE IF ~decimalSellOnShare.ok
        THEN ThrewAfter(parsedCurrency.warnings \o parsedBidder.warnings
                            \o parsedRecipient.warnings,
                        decimalSellOnShare.message)
        ELSE [ok |-> TRUE,
              value |-> [currency |-> parsedCurrency.value, amount |-> amount,
                         bidder |-> parsedBidder.value,
                         recipient |-> parsedRecipient.value,
                         sellOnShare |-> decimalSellOnShare.value],
              warnings |-> parsedCurrency.warnings \o parsedBidder.warnings
                           \o parsedRecipient.warnings]

(***************************************************************************)
(* SpecConstruct: Init draws one call of a constructor or of a validator   *)
(* it uses, and the action of that function runs it and records how it     *)
(* ended.                                                                  *)
(***************************************************************************)
Bytes32Inputs ==
    {LowerHex(DigestOfAbc), UpperHex(DigestOfAbc), ByteArray(DigestOfAbc),
     LowerHex(Tail(DigestOfAbc)), LowerHex(<<0>> \o DigestOfAbc),
     ByteArray(Tail(DigestOfAbc)), ByteArray(<<0>> \o DigestOfAbc),
     ByteArray(<<256>> \o Tail(DigestOfAbc)), ByteArray(<<>>),
     NotHex, OddHex, HexString(HexPrefix),
     HexString(SubSeq(LowerHex(DigestOfAbc).items, 1, 65)),
     HexString(BytesToHex(DigestOfAbc)),
     HexString(<<"0", "X">> \o BytesToHex(DigestOfAbc))}

AddressInputs ==
    {ChecksummedA, LowercaseA, UppercaseA, UnprefixedA, MiscasedA, ChecksummedB,
     NotAnAddress, ShortAddress, ""}

ConstructDataHashInputs ==
    {LowerHex(DigestOfAbc), ByteArray(DigestOfEmpty), LowerHex(Tail(DigestOfAbc)),
     ByteArray(<<0>> \o DigestOfAbc)}

\* Percentages: whole ones, ones with a fifth fractional digit, binary
\* fractions that are ties at the fourth digit, negative ones, NaN, infinity.
PercentageInputs ==
    {Finite(FALSE, u) : u \in {0, 6, 3125, 1000000, 3333300, 3333333, 3333334,
                               3333330, 3333336, 3333400, 9000000, 9993750, 10000000,
                               11000000}}
    \cup {Finite(TRUE, 1), Finite(TRUE, 1000000), NaN, Infinity(FALSE), Infinity(TRUE)}

BidAmount == 99

\* The arguments a call of the model gives a constructor after the uris and
\* the hashes.
ExtraInputs(fn) ==
    CASE fn = "constructSpaceData" -> [isPublic |-> TRUE, lands |-> <<>>]
      [] fn = "constructLandData" -> [xCoordinate |-> 1, yCoordinate |-> 2]
      [] OTHER -> <<>>

\* The same arguments of a call, in the order of the parameters.
ExtraArguments(in) ==
    CASE in.fn = "constructSpaceData" -> <<in.isPublic, in.lands>>
      [] in.fn = "constructLandData" -> <<in.xCoordinate, in.yCoordinate>>
      [] OTHER -> <<>>

ConstructInputs ==
    {[fn |-> "validateBytes32", value |-> v] : v \in Bytes32Inputs}
    \cup {[fn |-> "validateAndParseAddress", address |-> a] : a \in AddressInputs}
    \cup {[fn |-> f, tokenURI |-> t, metadataURI |-> m, contentHash |-> ch,
           metadataHash |-> mh] @@ ExtraInputs(f) :
             f \in DataConstructors, t \in TokenURIInputs, m \in MetadataURIInputs,
             ch \in ConstructDataHashInputs, mh \in ConstructDataHashInputs}
    \cup {[fn |-> "constructBidShares", creator |-> c, owner |-> o, prevOwner |-> q] :
             c \in PercentageInputs, o \in PercentageInputs, q \in PercentageInputs}
    \cup {[fn |-> "constructBid", currency |-> c, amount |-> BidAmount, bidder |-> b,
           recipient |-> r, sellOnShare |-> x] :
             c \in {ChecksummedA, LowercaseA, NotAnAddress},
             b \in {ChecksummedB, MiscasedA},
             r \in {ChecksummedB, NotAnAddress},
             x \in PercentageInputs}

InitConstruct ==
    /\ utilIn \in ConstructInputs
    /\ utilOut = Pending
    /\ AssetIdle
    /\ VerifyIdle

ApplyValidateBytes32 ==
    /\ utilOut = Pending
    /\ utilIn.fn = "validateBytes32"
    /\ utilOut' = validateBytes32(utilIn.value)
    /\ UNCHANGED <<utilIn, assetVars, verifyVars>>

ApplyValidateAndParseAddress ==
    /\ utilOut = Pending
    /\ utilIn.fn = "validateAndParseAddress"
    /\ utilOut' = validateAndParseAddress(utilIn.address)
    /\ UNCHANGED <<utilIn, assetVars, verifyVars>>

ApplyConstructData ==
    /\ utilOut = Pending
    /\ utilIn.fn \in DataConstructors
    /\ utilOut' = ConstructData(utilIn.fn, utilIn.tokenURI, utilIn.metadataURI,
                                utilIn.contentHash, utilIn.metadataHash,
                                ExtraArguments(utilIn))
    /\ UNCHANGED <<utilIn, assetVars, verifyVars>>

ApplyConstructBidShares ==
    /\ utilOut = Pending
    /\ utilIn.fn = "constructBidShares"
    /\ utilOut' = constructBidShares(utilIn.creator, utilIn.owner, utilIn.prevOwner)
    /\ UNCHANGED <<utilIn, assetVars, verifyVars>>

ApplyConstructBid ==
    /\ utilOut = Pending
    /\ utilIn.fn = "constructBid"
    /\ utilOut' = constructBid(utilIn.currency, utilIn.amount, utilIn.bidder,
                               utilIn.recipient, utilIn.sellOnShare)
    /\ UNCHANGED <<utilIn, assetVars, verifyVars>>

NextConstruct ==
    \/ ApplyValidateBytes32
    \/ ApplyValidateAndParseAddress
    \/ ApplyConstructData
    \/ ApplyConstructBidShares
    \/ ApplyConstructBid

SpecConstruct == InitConstruct /\ [][NextConstruct]_vars

(***************************************************************************)
(* Claims about the constructors and their validators, checked under       *)
(* SpecConstruct.                                                          *)
(***************************************************************************)
ConstructCallDone(fns) == utilIn.fn \in fns /\ utilOut # Pending

\* The value is 32 bytes: an array of 32 bytes, or 0x and 64 hex digits.
Is32Bytes(v) == DenotesBytes(v) /\ Len(BytesDenoted(v)) = 32

\* C11: validateBytes32 returns if the value, a 0x-prefixed hex string or a
\* byte array, is 32 bytes long, and throws for every value of another
\* length and for every string that is not 0x-prefixed hex.
C11_ValidateBytes32Exact ==
    ConstructCallDone({"validateBytes32"})
    => /\ utilOut = Ok <=> Is32Bytes(utilIn.value)
       /\ utilOut # Ok => ~utilOut.ok

\* C11 happens: a byte array of 32 bytes was accepted.
C11_Witness ==
    /\ ConstructCallDone({"validateBytes32"})
    /\ utilIn.value = ByteArray(DigestOfAbc)
    /\ utilOut = Ok

\* Forty hex digits, with 0x or without, whatever their case.
FortyHexDigits == {ChecksummedA, LowercaseA, UppercaseA, UnprefixedA, MiscasedA, ChecksummedB}

\* The addresses whose letters are all of one case or in the checksum case.
ChecksumOf(address) ==
    CASE address \in {ChecksummedA, LowercaseA, UppercaseA, UnprefixedA} -> ChecksummedA
      [] address = ChecksummedB -> ChecksummedB
      [] OTHER -> ""

NotValidMessage(address) == "Invariant failed: " \o address \o " is not a valid address."

\* C12 as the specification states it: every string of forty hex digits,
\* however its letters are cased, is returned in checksum form, and every
\* other string fails with the message.
C12_EveryCasingAccepted ==
    ConstructCallDone({"validateAndParseAddress"})
    => IF utilIn.address \in FortyHexDigits
       THEN utilOut.ok /\ utilOut.value \in {ChecksummedA, ChecksummedB}
       ELSE utilOut = Threw(NotValidMessage(utilIn.address))

\* C12 as the code has it: an address written in lower case, in upper case
\* or in its checksum case is returned in checksum form, with a warning and
\* no failure when it was not given in that form; an address in a mixed case
\* that is not its checksum case fails with the message, as does every
\* string that is not an address.
C12_ChecksumOrOneCaseAccepted ==
    ConstructCallDone({"validateAndParseAddress"})
    => IF ChecksumOf(utilIn.address) # ""
       THEN /\ utilOut.ok
            /\ utilOut.value = ChecksumOf(utilIn.address)
            /\ utilOut.warnings =
                 IF utilIn.address = utilOut.value THEN <<>>
                 ELSE <<"Warning: " \o utilIn.address \o " is not checksummed.">>
       ELSE utilOut = Threw(NotValidMessage(utilIn.address))

\* C12 happens: an address of forty hex digits in a mixed case that is not
\* its checksum case was refused.
C12_Witness ==
    /\ ConstructCallDone({"validateAndParseAddress"})
    /\ utilIn.address = MiscasedA
    /\ utilOut = Threw("Invariant failed: 0x1d7022f5B17d2F8B695918FB48fa1089C9f85401 is not a valid address.")

\* C13: a data constructor returns a record only when both hashes are 32
\* bytes and both uris begin with https://, the record holds the four
\* arguments, and when a check fails it throws and returns no record.
C13_RecordsSatisfyInvariants ==
    ConstructCallDone(DataConstructors)
    => /\ utilOut.ok <=> /\ Is32Bytes(utilIn.contentHash)
                         /\ Is32Bytes(utilIn.metadataHash)
                         /\ StartsWithHttps(utilIn.tokenURI)
                         /\ StartsWithHttps(utilIn.metadataURI)
       /\ utilOut.ok => /\ utilOut.value.tokenURI = utilIn.tokenURI
                        /\ utilOut.value.metadataURI = utilIn.metadataURI
                        /\ utilOut.value.contentHash = utilIn.contentHash
                        /\ utilOut.value.metadataHash = utilIn.metadataHash
       /\ ~utilOut.ok => "value" \notin DOMAIN utilOut

\* C13 happens: only the metadata uri, the last of the four checks, was
\* wrong, and the constructor threw.
C13_Witness ==
    /\ ConstructCallDone(DataConstructors)
    /\ Is32Bytes(utilIn.contentHash)
    /\ Is32Bytes(utilIn.metadataHash)
    /\ utilIn.tokenURI = GoodTokenURI
    /\ utilIn.metadataURI = BadMetadataURI
    /\ utilOut = Threw("Invariant failed: ipfs://m must begin with " \o QuotedHttps)

PercentageArguments ==
    IF utilIn.fn = "constructBidShares"
    THEN <<utilIn.creator, utilIn.owner, utilIn.prevOwner>>
    ELSE <<utilIn.sellOnShare>>

DecimalsReturned ==
    IF utilIn.fn = "constructBidShares"
    THEN <<utilOut.value.creator, utilOut.value.owner, utilOut.value.prevOwner>>
    ELSE <<utilOut.value.sellOnShare>>

\* The argument is a finite number that is zero or more.
NonNegativeReal(x) == x.kind = "finite" /\ ~x.neg

\* The nearest number of ten-thousandths, and the one at or below.
NearestTenThousandths(x) == (x.units + 5) \div 10
FloorTenThousandths(x) == x.units \div 10

\* m * 10^14 written in decimal.
ScaledText(m) == IF m = 0 THEN "0" ELSE NatToString(m) \o "00000000000000"

SharesAreNonNegativeReals ==
    /\ NonNegativeReal(utilIn.creator)
    /\ NonNegativeReal(utilIn.owner)
    /\ NonNegativeReal(utilIn.prevOwner)

\* C14 as the specification states it: constructBidShares succeeds for all
\* non-negative a, b, c with a + b + c = 100.
C14_SucceedsWhenSharesSumTo100 ==
    (/\ ConstructCallDone({"constructBidShares"})
     /\ SharesAreNonNegativeReals
     /\ utilIn.creator.units + utilIn.owner.units + utilIn.prevOwner.units
          = 100 * UnitsPerOne)
    => utilOut.ok

\* C14 as the code has it: for non-negative a, b, c, constructBidShares
\* succeeds if and only if the three percentages, each rounded to four
\* fractional digits, sum to 100; shares that sum to 100 but whose roundings
\* do not are refused.
C14_SucceedsIffRoundedSharesSumTo100 ==
    (ConstructCallDone({"constructBidShares"}) /\ SharesAreNonNegativeReals)
    => (utilOut.ok <=>
          NearestTenThousandths(utilIn.creator) + NearestTenThousandths(utilIn.owner)
            + NearestTenThousandths(utilIn.prevOwner) = 100 * 10 ^ 4)

\* C14 happens: 0.03125 + 0.03125 + 99.9375 = 100, each share rounds at the
\* fourth digit, and the sum of the roundings is 100.0001.
C14_Witness ==
    /\ ConstructCallDone({"constructBidShares"})
    /\ utilIn.creator = Finite(FALSE, 3125)
    /\ utilIn.owner = Finite(FALSE, 3125)
    /\ utilIn.prevOwner = Finite(FALSE, 9993750)
    /\ utilOut = Threw("Invariant failed: The BidShares sum to 100000100000000000000, but they must sum to 100000000000000000000")

\* C15 as the specification states it: a non-negative percentage x becomes
\* floor(x * 10^4) * 10^14.
C15_PercentagesTruncated ==
    (ConstructCallDone({"constructBidShares", "constructBid"}) /\ utilOut.ok)
    => \A i \in 1..Len(PercentageArguments) :
          NonNegativeReal(PercentageArguments[i])
          => BNToString(DecimalsReturned[i].value)
               = ScaledText(FloorTenThousandths(PercentageArguments[i]))

\* C15 as the code has it: a percentage x is rounded to the nearest multiple
\* of 10^-4, a tie going up, so the value is round(x * 10^4) * 10^14.
C15_PercentagesRoundedToNearest ==
    (ConstructCallDone({"constructBidShares", "constructBid"}) /\ utilOut.ok)
    => \A i \in 1..Len(PercentageArguments) :
          BNToString(DecimalsReturned[i].value)
            = ScaledText(NearestTenThousandths(PercentageArguments[i]))

\* C15 happens: a sellOnShare of 0.00006 became 0.0001, that is 10^14.
C15_Witness ==
    /\ ConstructCallDone({"constructBid"})
    /\ utilIn.sellOnShare = Finite(FALSE, 6)
    /\ utilOut.ok
    /\ BNToString(utilOut.value.sellOnShare.value) = "100000000000000"

\* C16: constructBidShares and constructBid fail whenever a percentage
\* argument is negative or not finite, and every DecimalValue they return is
\* zero or more.
C16_NegativeAndNonFiniteRejected ==
    ConstructCallDone({"constructBidShares", "constructBid"})
    => /\ (\E i \in 1..Len(PercentageArguments) :
              \/ PercentageArguments[i].kind # "finite"
              \/ PercentageArguments[i].neg /\ PercentageArguments[i].units > 0)
          => ~utilOut.ok
       /\ utilOut.ok => \A i \in 1..Len(DecimalsReturned) : DecimalsReturned[i].value[4] >= 0

(***************************************************************************)
(* isValidBid of the wrappers: two reads of the exchange contract, the     *)
(* validity of the bid amount and the current bid shares of the asset,     *)
(* and a comparison of the bid's sellOnShare with what the creator's share *)
(* leaves of 100.                                                          *)
(***************************************************************************)
\* BigNumber.sub
BNSub(a, b) == BNAdd(a, BNNegate(b))

\* A comparison that is false for equal numbers.
BNLessThan(a, b) ==
    \/ a[4] < b[4]
    \/ a[4] = b[4] /\ a[3] < b[3]
    \/ a[4] = b[4] /\ a[3] = b[3] /\ a[2] < b[2]
    \/ a[4] = b[4] /\ a[3] = b[3] /\ a[2] = b[2] /\ a[1] < b[1]

\* BigNumber.lte
BNLte(a, b) ==
    \/ a[4] < b[4]
    \/ a[4] = b[4] /\ a[3] < b[3]
    \/ a[4] = b[4] /\ a[3] = b[3] /\ a[2] < b[2]
    \/ a[4] = b[4] /\ a[3] = b[3] /\ a[2] = b[2] /\ a[1] <= b[1]

\* A call of the binding this.itemExchange / this.spaceExchange / ... made
\* by the SDK call id, with what it returned once it is answered.
ExchangeRead(id, method, args, returned) ==
    [call |-> id, contract |-> wrapper.kind \o "Exchange", at |-> wrapper.exchangeAddress,
     method |-> method, args |-> args,
     asSigner |-> wrapper.signerOrProvider.isSigner,
     connected |-> "signerOrProvider", returned |-> returned]

\* What isValidBid of the exchange contract answers.
AmountValidOutcomes == {Resolved(TRUE), Resolved(FALSE), Rejected(ContractError)}

\* The creator shares the exchange contract may hold for the asset, in
\* ten-thousandths of a percent: 10 and 33.3333.
CreatorShareInputs == {100000, 333333}

\* What bidSharesForToken answers: bid shares that sum to 100, or an error.
BidSharesOutcomes ==
    {Resolved([creator |-> DecimalOfTenThousandths(m),
               owner |-> DecimalOfTenThousandths(1000000 - m),
               prevOwner |-> DecimalOfTenThousandths(0)]) : m \in CreatorShareInputs}
    \cup {Rejected(ContractError)}

\* The sellOnShare of the bids: 0, 10, 66.6667, 66.6668, 90, 90.1, 110.
SellOnShareInputs ==
    {Finite(FALSE, u) : u \in {0, 1000000, 6666670, 6666680, 9000000, 9010000, 11000000}}

\* bid.sellOnShare.value.lte(decimal100.value.sub(currentBidShares.creator.value))
IsSellOnShareValid(bid, currentBidShares) ==
    BNLte(bid.sellOnShare.value, BNSub(Decimal100, currentBidShares.creator.value))

\* isValidBid(id, bid), for a bid made by constructBid: the exchange is
\* asked whether the amount is valid, and the answer is awaited.
IsValidBid ==
    /\ wrapper # NoWrapper
    /\ contractCount < MaxContractCalls
    /\ \E sellOnShare \in SellOnShareInputs :
         LET made == constructBid(ChecksummedA, BidAmount, ChecksummedB, ChecksummedB,
                                  sellOnShare)
             bid == made.value
             call == SdkCallOf("isValidBid",
                               [id |-> 0, bid |-> bid, sellOnShare |-> sellOnShare])
         IN  /\ made.ok
             /\ Suspends(call,
                         <<ExchangeRead(call.id, "isValidBid",
                                        [id |-> 0, amount |-> bid.amount], Pending)>>,
                         "isValidBid")
    /\ UNCHANGED <<wrapper, utilVars, verifyVars>>

\* The exchange answers whether the amount is valid: a rejection rejects the
\* call; otherwise the current bid shares are fetched and awaited.
AmountAnswered ==
    /\ \E c \in inFlight, amountValid \in AmountValidOutcomes :
         LET answered == AnswerPending(contractLog, c.call.id, amountValid)
         IN  /\ c.awaiting = "isValidBid"
             /\ sdkCall' = c.call
             /\ IF amountValid.state = "rejected"
                THEN /\ sdkResult' = amountValid
                     /\ contractLog' = answered
                     /\ contractCount' = contractCount
                     /\ inFlight' = inFlight \ {c}
                ELSE /\ sdkResult' = Pending
                     /\ contractLog' =
                           Append(answered,
                                  ExchangeRead(c.call.id, "bidSharesForToken", [id |-> 0],
                                               Pending))
                     /\ contractCount' = contractCount + 1
                     /\ inFlight' = (inFlight \ {c})
                                    \cup {Awaiting(c.call, "bidSharesForToken")}
    /\ UNCHANGED <<wrapper, utilVars, verifyVars>>

\* The current bid shares are answered: a rejection rejects the call;
\* otherwise the sellOnShare is compared and the call resolves.
BidSharesAnswered ==
    /\ \E c \in inFlight, shares \in BidSharesOutcomes :
         /\ c.awaiting = "bidSharesForToken"
         /\ sdkCall' = c.call
         /\ contractLog' = AnswerPending(contractLog, c.call.id, shares)
         /\ sdkResult' =
               IF shares.state = "rejected" THEN shares
               ELSE Resolved(LogOf(c.call.id)[1].returned.value
                             /\ IsSellOnShareValid(c.call.args.bid, shares.value))
         /\ inFlight' = inFlight \ {c}
         /\ UNCHANGED contractCount
    /\ UNCHANGED <<wrapper, utilVars, verifyVars>>

\* SpecBid: a wrapper is constructed, and bids are checked with it.
NextBid ==
    \/ Construct
    \/ IsValidBid
    \/ AmountAnswered
    \/ BidSharesAnswered

SpecBid == InitAsset /\ [][NextBid]_vars

\* The last call was isValidBid, and both reads of the exchange answered.
BidChecked ==
    /\ sdkCall.method = "isValidBid"
    /\ Len(CallLog) = 2
    /\ CallLog[1].returned.state = "resolved"
    /\ CallLog[2].returned.state = "resolved"

\* The sellOnShare of the bid is at most 100 less the creator share m, both
\* counted in ten-thousandths of a percent.
WithinCreatorBound(m) == NearestTenThousandths(sdkCall.args.sellOnShare) <= 1000000 - m

\* The creator share the exchange answered with is m ten-thousandths.
CreatorShareIs(m) ==
    BNToString(CallLog[2].returned.value.creator.value) = ScaledText(m)

\* C17: isValidBid resolves true if and only if the exchange reports the bid
\* amount as valid and the bid's sellOnShare is at most 100 * 10^18 less the
\* current creator share; a sellOnShare above that resolves false and is no
\* error, and constructBid made the bid whatever its sellOnShare.
C17_ValidBidIffAmountAndSellOnShare ==
    sdkCall.method = "isValidBid"
    => /\ sdkResult = Resolved(TRUE)
            => /\ BidChecked
               /\ CallLog[1].returned.value
               /\ \E m \in CreatorShareInputs : CreatorShareIs(m) /\ WithinCreatorBound(m)
       /\ BidChecked
            => \A m \in CreatorShareInputs :
                  CreatorShareIs(m)
                  => sdkResult = Resolved(CallLog[1].returned.value
                                          /\ WithinCreatorBound(m))

\* C17 happens: constructBid made a bid with a sellOnShare of 90.1, the
\* creator share is 10, the amount is valid, and isValidBid resolved false.
C17_Witness ==
    /\ BidChecked
    /\ sdkCall.args.sellOnShare = Finite(FALSE, 9010000)
    /\ BNToString(sdkCall.args.bid.sellOnShare.value) = "90100000000000000000"
    /\ CallLog[1].returned = Resolved(TRUE)
    /\ CreatorShareIs(100000)
    /\ sdkResult = Resolved(FALSE)

(***************************************************************************)
(* Claims about the constructors (SpecAsset)                               *)
(***************************************************************************)
\* The last call was the constructor of a wrapper that takes addresses.
ConstructedWithAddressArguments ==
    sdkCall.method = "constructor" /\ sdkCall.kind \in {"item", "space", "land"}

\* The argument is an address the caller supplied: a string that is not empty.
Supplied(a) == a.defined /\ a.text # ""

ExactlyOneSupplied ==
    Supplied(sdkCall.assetAddress) # Supplied(sdkCall.exchangeAddress)

\* The message of the constructor about its pair of addresses.
PairMessageOfKind ==
    CASE sdkCall.kind = "item" ->
           "Invariant failed: Motif Constructor: itemAddress and itemExchangeAddress must both be non-null or both be null"
      [] sdkCall.kind = "space" ->
           "Invariant failed: Motif Constructor: spaceAddress and spaceExchangeAddress must both be non-null or both be null"
      [] sdkCall.kind = "land" ->
           "Invariant failed: Motif Constructor: landAddress and landExchangeAddress must both be non-null or both be null"

\* C18: the constructor of MotifItem, MotifSpace and MotifLand throws its
\* message about the pair of addresses if and only if exactly one of the
\* asset address and the exchange address is supplied, the empty string
\* counting as not supplied; no other step of the constructor comes first, so
\* neither an address that is not valid nor a chainId without a network
\* changes the error, and no instance is made.
C18_PairCheckComesFirst ==
    ConstructedWithAddressArguments
    => /\ ExactlyOneSupplied <=> sdkResult = Thrown(PairMessageOfKind)
       /\ ExactlyOneSupplied => wrapper = NoWrapper

\* C18 happens: MotifItem is constructed for chainId 50 with a string that is
\* no address as item address and the empty string as exchange address, and
\* throws the message about the pair.
C18_Witness ==
    /\ sdkCall.method = "constructor"
    /\ sdkCall.kind = "item"
    /\ sdkCall.chainId = 50
    /\ sdkCall.assetAddress = Str(NotAnAddress)
    /\ sdkCall.exchangeAddress = Str("")
    /\ sdkResult = Thrown(PairMessageOfKind)

\* The network a chainId stands for, for the chainIds of the model.
NetworkOfChainId(chainId) ==
    CASE chainId = 1 -> "mainnet"
      [] chainId = 3 -> "ropsten"
      [] chainId = 7018 -> "motif"
      [] OTHER -> "no network"

\* The chainId maps to a network with deployed contracts: a network the
\* address book of the build holds.
MapsToDeployedContracts(chainId, book) == NetworkOfChainId(chainId) \in BookNetworks(book)

\* The chainIds chainIdToNetworkName has a case for.
KnownChainIds == {1, 3, 7018}

UnsupportedChainIdMessage ==
    CASE sdkCall.chainId = 1 -> "Invariant failed: chainId 1 not officially supported by the Motif"
      [] sdkCall.chainId = 3 -> "Invariant failed: chainId 3 not officially supported by the Motif"
      [] sdkCall.chainId = 4 -> "Invariant failed: chainId 4 not officially supported by the Motif"
      [] sdkCall.chainId = 50 -> "Invariant failed: chainId 50 not officially supported by the Motif"
      [] OTHER -> "no message"

ConstructedWithoutAddresses ==
    /\ sdkCall.method = "constructor"
    /\ ~Supplied(sdkCall.assetAddress)
    /\ ~Supplied(sdkCall.exchangeAddress)

\* Constructed with two valid addresses, the first not in checksum case: the
\* call does not throw, whatever the chainId, and the instance holds exactly
\* the supplied addresses, in checksum case.
SuppliedAddressesAreUsed ==
    ( /\ sdkCall.method = "constructor"
      /\ sdkCall.assetAddress = Str(LowercaseA)
      /\ sdkCall.exchangeAddress = Str(ChecksummedB) )
    => /\ sdkResult = Resolved("instance")
       /\ wrapper # NoWrapper
       /\ wrapper.assetAddress = "0x1D7022f5B17d2F8B695918FB48fa1089C9f85401"
       /\ wrapper.exchangeAddress = "0x1dC4c1cEFEF38a777b15aA20260a54E584b16C48"
       /\ wrapper.chainId = sdkCall.chainId

\* C19: a wrapper constructed without addresses throws 'chainId <n> not
\* officially supported ...' for every chainId that does not map to a network
\* with deployed contracts, that is, a network of the address book; one
\* constructed with two valid addresses does not throw, whatever the chainId,
\* and holds exactly the supplied addresses, in checksum case.
C19_UnmappedChainIdsAreUnsupported ==
    /\ ( /\ ConstructedWithoutAddresses
         /\ ~MapsToDeployedContracts(sdkCall.chainId, sdkCall.book) )
       => sdkResult = Thrown(UnsupportedChainIdMessage) /\ wrapper = NoWrapper
    /\ SuppliedAddressesAreUsed

\* C19, the part of it the code keeps: the message is thrown for every
\* chainId chainIdToNetworkName has no case for, and supplied addresses are
\* used whatever the chainId.
C19_UnknownChainIdsAreUnsupported ==
    /\ (ConstructedWithoutAddresses /\ sdkCall.chainId \notin KnownChainIds)
       => sdkResult = Thrown(UnsupportedChainIdMessage) /\ wrapper = NoWrapper
    /\ SuppliedAddressesAreUsed

\* C19 fails: MotifItem is constructed without addresses for chainId 1 in a
\* build whose address book holds no mainnet, and throws a TypeError in
\* place of the message about the chainId.
C19_WitnessUndefinedEntry ==
    /\ sdkCall.method = "constructor"
    /\ sdkCall.kind = "item"
    /\ sdkCall.chainId = 1
    /\ sdkCall.book = "part_002"
    /\ sdkCall.assetAddress = Undefined
    /\ sdkCall.exchangeAddress = Undefined
    /\ sdkResult = Thrown("Cannot read properties of undefined (reading 'item')")
    /\ wrapper = NoWrapper

\* C19 happens: MotifItem is constructed for chainId 50 with both addresses,
\* the item address in lower case, and the instance holds the checksummed
\* addresses.
C19_Witness ==
    /\ sdkCall.method = "constructor"
    /\ sdkCall.kind = "item"
    /\ sdkCall.chainId = 50
    /\ sdkCall.assetAddress = Str(LowercaseA)
    /\ sdkCall.exchangeAddress = Str(ChecksummedB)
    /\ sdkResult = Resolved("instance")
    /\ wrapper.assetAddress = ChecksummedA

\* C19 happens, too: MotifItem is constructed for chainId 50 without
\* addresses and throws.
C19_WitnessUnsupported ==
    /\ sdkCall.method = "constructor"
    /\ sdkCall.kind = "item"
    /\ sdkCall.chainId = 50
    /\ sdkCall.assetAddress = Undefined
    /\ sdkCall.exchangeAddress = Undefined
    /\ sdkResult = Thrown("Invariant failed: chainId 50 not officially supported by the Motif")

(***************************************************************************)
(* Claims about the gas limit of mint (SpecAsset)                          *)
(***************************************************************************)
\* The arguments of the last call pass every validation of mint, and the
\* wrapper holds a signer.
MintArgumentsValid ==
    /\ wrapper # NoWrapper
    /\ wrapper.signerOrProvider.isSigner
    /\ sdkCall.args.data.tokenURI = GoodTokenURI
    /\ sdkCall.args.data.metadataURI = GoodMetadataURI
    /\ sdkCall.args.bidShares = ValidBidShares

\* floor(estimate * 110 / 100) for the estimates of the model, in decimal.
TenPercentMore(estimate) ==
    CASE estimate = 7 -> "7"
      [] estimate = 100001 -> "110001"
      [] OTHER -> "not an estimate of the model"

\* C20: mint asks the contract for a gas estimate only after all its
\* validations have passed, for the itemData and bidShares it was called
\* with, and sends the transaction for the same itemData and bidShares with
\* gasLimit = floor(estimate * 110 / 100); without an estimate nothing is
\* sent.
C20_MintPadsGasLimitByTenPercent ==
    sdkCall.method = "mint"
    => /\ MintArgumentsValid <=> Len(CallLog) >= 1
       /\ Len(CallLog) >= 1
            => /\ CallLog[1].method = "estimateGas.mint"
               /\ CallLog[1].args = sdkCall.args
               /\ Len(CallLog) = 2 <=> CallLog[1].returned.state = "resolved"
               /\ Len(CallLog) = 1 => sdkResult = CallLog[1].returned
       /\ Len(CallLog) = 2
            => /\ CallLog[2].method = "mint"
               /\ CallLog[2].args.data = sdkCall.args.data
               /\ CallLog[2].args.bidShares = sdkCall.args.bidShares
               /\ CallLog[2].args.overrides.gasLimit
                    = TenPercentMore(CallLog[1].returned.value)

\* C20 happens: the estimate for a valid mint is 7, and the transaction is
\* sent with a gas limit of 7, the floor of 7.7.
C20_Witness ==
    /\ sdkCall.method = "mint"
    /\ wrapper.kind = "item"
    /\ Len(CallLog) = 2
    /\ CallLog[1].returned = Resolved(7)
    /\ CallLog[2].method = "mint"
    /\ CallLog[2].args.overrides.gasLimit = "7"
    /\ sdkResult = Resolved("tx")

\* C20 happens for a large estimate, too: 100001 becomes 110001.
C20_WitnessLargeEstimate ==
    /\ sdkCall.method = "mint"
    /\ Len(CallLog) = 2
    /\ CallLog[1].returned = Resolved(100001)
    /\ CallLog[2].args.overrides.gasLimit = "110001"

(***************************************************************************)
(* isVerifiedItem, isVerifiedSpace, isVerifiedAvatar and isVerifiedLand:   *)
(* the uris and hashes of the asset are read from the contract with        *)
(* Promise.all, the record is constructed from them, and the promise of    *)
(* the record verifier is returned.  What the reads or the constructor     *)
(* throw is caught and becomes a rejection with the message of the error;  *)
(* a rejection of the record verifier is the rejection of the call.        *)
(***************************************************************************)
IsVerifiedMethod(kind) ==
    CASE kind = "item" -> "isVerifiedItem"
      [] kind = "space" -> "isVerifiedSpace"
      [] kind = "avatar" -> "isVerifiedAvatar"
      [] kind = "land" -> "isVerifiedLand"

DataConstructorOf(kind) ==
    CASE kind = "item" -> "constructItemData"
      [] kind = "space" -> "constructSpaceData"
      [] kind = "avatar" -> "constructAvatarData"
      [] kind = "land" -> "constructLandData"

RecordVerifierOf(kind) ==
    CASE kind = "item" -> "isItemDataVerified"
      [] kind = "space" -> "isSpaceDataVerified"
      [] kind = "avatar" -> "isAvatarDataVerified"
      [] kind = "land" -> "isLandDataVerified"

\* The reads a wrapper makes besides the two uris and the two hashes.
ExtraReads(kind) ==
    CASE kind = "space" -> <<"isPublic", "lands">>
      [] kind = "avatar" -> <<"tokenDefault">>
      [] kind = "land" -> <<"xCoordinate", "yCoordinate">>
      [] OTHER -> <<>>

\* A hash of 31 bytes.
ShortHash == LowerHex(Tail(DigestOfAbc))

\* What the contract answers to the reads: the token does not exist, or it
\* holds uris and hashes as they were minted.
TokenURIReads == {Resolved(GoodTokenURI), Resolved(BadTokenURI), Rejected(ContractError)}
MetadataURIReads == {Resolved(GoodMetadataURI), Rejected(ContractError)}
ContentHashReads ==
    {Resolved(LowerHex(DigestOfAbc)), Resolved(ShortHash), Rejected(ContractError)}
MetadataHashReads == {Resolved(LowerHex(DigestOfEmpty)), Rejected(ContractError)}
ExtraReadOutcomes == {Resolved("value"), Rejected(ContractError)}

\* A read of the binding this.item / this.space / ... made by the SDK call
\* id, with what it returned once it is answered.
AssetRead(id, method, returned) == ContractCall(id, method, [id |-> 0], returned)

\* What a read has returned when Promise.all settles: an answer, or nothing
\* yet.
StillPending(outcomes) == outcomes \cup {Pending}

\* The log once the contract calls of the SDK call id have the answers, in
\* the order the calls were issued.
AnswerEach(log, id, answers) ==
    [i \in 1..Len(log) |->
        IF log[i].call = id
        THEN [log[i] EXCEPT
                 !.returned = answers[Cardinality({j \in 1..i : log[j].call = id})]]
        ELSE log[i]]

\* Promise.all: every read is started; the first rejection rejects.
AnyRejected(answers) == \E i \in 1..Len(answers) : answers[i].state = "rejected"

\* Promise.all resolves when every read has resolved.
AnyPending(answers) == \E i \in 1..Len(answers) : answers[i] = Pending

\* A wrapper that verifies whatever record it read, checked or not.
IsVerifiedWithoutConstructing(fn, tokenURI, metadataURI, contentHash, metadataHash, extra) ==
    Returned([tokenURI |-> tokenURI, metadataURI |-> metadataURI,
              contentHash |-> contentHash, metadataHash |-> metadataHash])

\* The record isVerifiedItem makes of what it read; isVerifiedSpace,
\* isVerifiedAvatar and isVerifiedLand pass on what their further reads
\* returned as well.
IsVerifiedRecord(fn, tokenURI, metadataURI, contentHash, metadataHash, extra) ==
    ConstructData(fn, tokenURI, metadataURI, contentHash, metadataHash, extra)

\* isVerifiedItem(id, timeout): the reads are issued together and
\* Promise.all of them is awaited.
CallIsVerified ==
    /\ wrapper # NoWrapper
    /\ contractCount < MaxContractCalls
    /\ \E timeout \in TimeoutInputs :
         LET extras == ExtraReads(wrapper.kind)
             call == SdkCallOf(IsVerifiedMethod(wrapper.kind),
                               [id |-> 0, timeout |-> timeout])
             reads == <<AssetRead(call.id, "tokenURI", Pending),
                        AssetRead(call.id, "tokenMetadataURI", Pending),
                        AssetRead(call.id, "tokenContentHashes", Pending),
                        AssetRead(call.id, "tokenMetadataHashes", Pending)>>
                      \o [i \in 1..Len(extras) |-> AssetRead(call.id, extras[i], Pending)]
         IN  Suspends(call, reads, "Promise.all")
    /\ UNCHANGED <<wrapper, utilVars, verifyVars>>

\* Promise.all settles: with the first rejection, whatever the other reads
\* have returned by then, or with every read resolved.  The record is then
\* constructed, and the record verifier called, whose promise is the promise
\* of the call.
ReadsAnswered(id) ==
    /\ id = Len(calls) + 1
    /\ \E c \in inFlight,
          t \in StillPending(TokenURIReads), m \in StillPending(MetadataURIReads),
          ch \in StillPending(ContentHashReads), mh \in StillPending(MetadataHashReads),
          x1 \in StillPending(ExtraReadOutcomes), x2 \in StillPending(ExtraReadOutcomes) :
         LET extras == ExtraReads(wrapper.kind)
             answers == <<t, m, ch, mh>>
                        \o [i \in 1..Len(extras) |-> IF i = 1 THEN x1 ELSE x2]
             timeout == c.call.args.timeout
         IN  /\ c.awaiting = "Promise.all"
             /\ Len(extras) < 2 => x2 = Resolved("value")
             /\ Len(extras) < 1 => x1 = Resolved("value")
             /\ AnyRejected(answers) \/ ~AnyPending(answers)
             /\ sdkCall' = c.call
             /\ contractLog' = AnswerEach(contractLog, c.call.id, answers)
             /\ UNCHANGED contractCount
             /\ IF AnyRejected(answers)
                THEN /\ sdkResult' = Rejected(ContractError)
                     /\ inFlight' = inFlight \ {c}
                     /\ UNCHANGED verifyVars
                ELSE LET data == IsVerifiedRecord(DataConstructorOf(wrapper.kind),
                                                  t.value, m.value, ch.value, mh.value,
                                                  [i \in 1..Len(extras) |->
                                                      answers[4 + i].value])
                     IN  IF ~data.ok
                         THEN /\ sdkResult' = Rejected(data.message)
                              /\ inFlight' = inFlight \ {c}
                              /\ UNCHANGED verifyVars
                         ELSE LET v == NewCall(RecordVerifierOf(wrapper.kind),
                                               [data |-> data.value, timeout |-> timeout])
                                  e == RecordVerifierCalled(id, v)
                              IN  /\ calls' = Append(calls, e.call)
                                  /\ requests' = requests \o e.issued
                                  /\ sdkResult' = e.call.result
                                  /\ inFlight' =
                                        (inFlight \ {c})
                                        \cup (IF e.call.result = Pending
                                              THEN {[call |-> c.call,
                                                     awaiting |-> RecordVerifierOf(wrapper.kind),
                                                     verification |-> id]}
                                              ELSE {})
    /\ UNCHANGED <<wrapper, utilVars>>

\* The record verifier goes on after an answer; its promise is the one
\* isVerifiedItem returned.
ResumeIsVerified(id) ==
    /\ ResumeCall(id)
    /\ \E c \in inFlight :
          /\ c.verification = id
          /\ sdkCall' = c.call
          /\ sdkResult' = calls'[id].result
          /\ inFlight' = IF calls'[id].result = Pending THEN inFlight ELSE inFlight \ {c}
    /\ UNCHANGED <<wrapper, contractLog, contractCount, utilVars>>

\* SpecIsVerified starts with a wrapper constructed for the motif network,
\* of any kind, with a signer or a provider.
InitIsVerified ==
    /\ UtilIdle
    /\ VerifyIdle
    /\ contractLog = <<>>
    /\ sdkCall = NoSdkCall
    /\ sdkResult = NoCall
    /\ contractCount = 0
    /\ inFlight = {}
    /\ \E kind \in Kinds, sp \in SignerOrProviderInputs :
         wrapper = IF kind = "avatar" THEN ConstructAvatar(sp, 7018, "part_002").value
                   ELSE ConstructWithAddresses(kind, sp, 7018, Undefined, Undefined,
                                               "part_002").value

NextIsVerified ==
    \/ CallIsVerified
    \/ \E id \in SoloCallIds : ReadsAnswered(id)
    \/ HttpSettles
    \/ \E id \in SoloCallIds : ResumeIsVerified(id)

SpecIsVerified == InitIsVerified /\ [][NextIsVerified]_vars

\* The last call was isVerifiedItem or its like in another wrapper.
IsVerifiedCalled ==
    sdkCall.method \in {"isVerifiedItem", "isVerifiedSpace", "isVerifiedAvatar",
                        "isVerifiedLand"}

\* One of the two uris and two hashes could not be read.
AReadOfTheFourFailed == \E i \in 1..4 : CallLog[i].returned.state = "rejected"

\* The values read do not make a record: a uri is not https, or a hash is
\* not of 32 bytes.
ValuesFailConstruction ==
    /\ \A i \in 1..Len(CallLog) : CallLog[i].returned.state = "resolved"
    /\ \/ CallLog[1].returned.value = BadTokenURI
       \/ CallLog[3].returned.value = ShortHash

\* C21: isVerifiedItem (and its like) rejects, and never resolves false,
\* whenever one of the four reads of the contract fails or the values read
\* fail the construction of the record; no HTTP request is issued then.
C21_FailedReadsRejectBeforeAnyRequest ==
    (IsVerifiedCalled /\ (AReadOfTheFourFailed \/ ValuesFailConstruction))
    => /\ sdkResult.state = "rejected"
       /\ requests = <<>>
       /\ calls = <<>>

\* C21 happens: the content uri of the item could not be read, and
\* isVerifiedItem rejected.
C21_Witness ==
    /\ sdkCall.method = "isVerifiedItem"
    /\ CallLog[1].returned = Rejected(ContractError)
    /\ CallLog[2].returned.state = "resolved"
    /\ sdkResult = Rejected(ContractError)
    /\ requests = <<>>

\* C21 happens for a record that cannot be constructed, too: the content
\* hash read is of 31 bytes.
C21_WitnessConstruction ==
    /\ sdkCall.method = "isVerifiedItem"
    /\ ValuesFailConstruction
    /\ CallLog[3].returned.value = ShortHash
    /\ sdkResult.state = "rejected"
    /\ requests = <<>>

\* A call whose reads and record are good does reach the network.
C21_WitnessVerified ==
    /\ sdkCall.method = "isVerifiedItem"
    /\ Len(requests) = 2
    /\ sdkResult = Resolved(TRUE)

(***************************************************************************)
(* Claims about the end of a verification call (FairVerify)                *)
(***************************************************************************)
\* The three ways a verification call ends: verified, mismatched, fetch
\* failed.
IsTerminalOutcome(r) ==
    \/ r = Resolved(TRUE)
    \/ r = Resolved(FALSE)
    \/ r.state = "rejected"

Started(id) == Len(calls) >= id
CallSettled(id) == Started(id) /\ calls[id].result # Pending

\* A call that has settled keeps its outcome.
OutcomeIsFinal ==
    \A id \in SoloCallIds :
        CallSettled(id) => (CallSettled(id)' /\ calls[id].result' = calls[id].result)

\* C22 as stated: every verification call eventually settles, for every
\* timeout value passed by the caller, even if the server never responds.
C22_SettlesForEveryTimeout ==
    \A id \in SoloCallIds : Started(id) ~> CallSettled(id)

\* The caller passed a timeout that is not 0, or none.
PositiveTimeout(id) == Started(id) /\ calls[id].args.timeout # Timeout(0)

\* C22: a verification call never has more than one outcome, and a call made
\* with a timeout other than 0 eventually settles, even if the server never
\* responds, because the timeout aborts the request.
C22_SettlesForEveryPositiveTimeout ==
    /\ [](\A id \in SoloCallIds : CallSettled(id) => IsTerminalOutcome(calls[id].result))
    /\ [][OutcomeIsFinal]_vars
    /\ \A id \in SoloCallIds : PositiveTimeout(id) ~> CallSettled(id)

\* C22 happens: the server did not answer, and the call ended with the
\* rejection of the timeout.
C22_Witness ==
    /\ CallSettled(1)
    /\ Len(requests) = 1
    /\ calls[1].args.timeout = Timeout(3)
    /\ requests[1].outcome = TimedOut
    /\ calls[1].result = Rejected("timeout of 3ms exceeded")

\* With a timeout of 0 a request can stay outstanding for ever.
C22_WitnessNoTimer ==
    /\ Started(1)
    /\ calls[1].args.timeout = Timeout(0)
    /\ Len(requests) = 1
    /\ requests[1].outcome = Pending

(***************************************************************************)
(* Claims about the requests of a verification call (SpecVerify)           *)
(***************************************************************************)
\* The GET requests call id issued for the uri of a leg.
GetsOf(id, leg) == {i \in 1..Len(requests) : requests[i].call = id /\ requests[i].leg = leg}

\* C23: the verifier never retries.  A call of isURIHashVerified issues at
\* most one GET for its uri, and a record verification at most one GET for
\* each of the two uris of the record, however the requests end.
C23_AtMostOneGetPerURI ==
    \A id \in 1..Len(calls) :
        /\ Cardinality(GetsOf(id, 1)) <= 1
        /\ Cardinality(GetsOf(id, 2)) <= 1
        /\ calls[id].fn = "isURIHashVerified" => GetsOf(id, 2) = {}
        /\ \A i \in 1..Len(requests) : requests[i].call = id => requests[i].leg \in {1, 2}

\* C23 happens: the one request of a call of isURIHashVerified failed, the
\* call was rejected, and no second request was made.
C23_Witness ==
    /\ Len(calls) = 1
    /\ calls[1].fn = "isURIHashVerified"
    /\ calls[1].result = Rejected("Network Error")
    /\ Len(requests) = 1
    /\ requests[1].outcome = NetworkError

\* The requests of calls that were made without a timeout and that axios
\* abandoned for want of a response.
AbandonedDefaultRequests ==
    {i \in 1..Len(requests) :
        /\ requests[i].outcome = TimedOut
        /\ calls[requests[i].call].args.timeout = NoTimeout}

\* C24: the timeout is in seconds and 10 by default: a verification call
\* made without a timeout abandons a request that got no response only after
\* 10000 ms, not earlier.
C24_DefaultTimeoutIsTenSeconds ==
    \A i \in AbandonedDefaultRequests : requests[i].waited >= 10000

\* What the code does: the request of a call without a timeout is abandoned
\* after 10 ms, and the call is rejected with the message of axios.
C24_DefaultTimeoutIsTenMilliseconds ==
    /\ Len(calls) = 1
    /\ calls[1].fn = "isURIHashVerified"
    /\ AbandonedDefaultRequests = {1}
    /\ requests[1].waited = 10
    /\ calls[1].result = Rejected("timeout of 10ms exceeded")

(***************************************************************************)
(* SpecConcurrent: two verification calls in flight at once.  JavaScript   *)
(* runs each call from one await to the next without interruption, so the  *)
(* steps of the two calls interleave at their awaits, in any order, and    *)
(* the server answers their requests in any order.                         *)
(***************************************************************************)
ConcurrentCallIds == {1, 2}

ConcurrentHashInputs == {LowerHex(DigestOfAbc), LowerHex(DigestOfEmpty)}

ConcurrentDataInputs ==
    {[tokenURI |-> GoodTokenURI, metadataURI |-> m,
      contentHash |-> LowerHex(DigestOfAbc), metadataHash |-> LowerHex(DigestOfEmpty)] :
        m \in MetadataURIInputs}

ConcurrentIsURIHashVerified(id) ==
    /\ id = Len(calls) + 1
    /\ \E expectedHash \in ConcurrentHashInputs :
         LET c == NewCall("isURIHashVerified",
                          [uri |-> GoodTokenURI, expectedHash |-> expectedHash,
                           timeout |-> NoTimeout])
             e == EnterLeg(id, c, 1)
         IN  /\ calls' = Append(calls, e.call)
             /\ requests' = requests \o e.issued
    /\ UNCHANGED <<utilVars, assetVars>>

ConcurrentRecordVerifier(id) ==
    /\ id = Len(calls) + 1
    /\ \E data \in ConcurrentDataInputs :
         LET c == NewCall("isItemDataVerified", [data |-> data, timeout |-> NoTimeout])
             e == RecordVerifierCalled(id, c)
         IN  /\ calls' = Append(calls, e.call)
             /\ requests' = requests \o e.issued
    /\ UNCHANGED <<utilVars, assetVars>>

NextConcurrent ==
    \/ \E id \in ConcurrentCallIds : ConcurrentIsURIHashVerified(id)
    \/ \E id \in ConcurrentCallIds : ConcurrentRecordVerifier(id)
    \/ HttpResponds
    \/ TimeoutFires
    \/ \E id \in ConcurrentCallIds : Resume(id)

SpecConcurrent == InitVerify /\ [][NextConcurrent]_vars

\* What the network answered to the request of call id for a leg, or
\* Pending.
AnswerToLeg(id, leg) ==
    IF \E i \in 1..Len(requests) :
          requests[i].call = id /\ requests[i].leg = leg /\ requests[i].outcome # Pending
    THEN (CHOOSE i \in 1..Len(requests) :
             requests[i].call = id /\ requests[i].leg = leg /\ requests[i].outcome # Pending)
    ELSE 0

\* The call run alone: from where e has brought it, it goes on with the
\* answers its own requests got, as far as they have come.
RECURSIVE RunAlone(_, _)
RunAlone(id, e) ==
    IF e.call.result # Pending THEN e.call.result
    ELSE LET i == AnswerToLeg(id, e.call.leg) IN
         IF i = 0 THEN Pending
         ELSE RunAlone(id,
                AfterLeg(id, e.call, e.call.leg,
                         isURIHashVerifiedAfterGet(LegHash(e.call, e.call.leg),
                                                   requests[i].outcome,
                                                   requests[i].timeout)))

\* The outcome call id has when it alone is made, with the same arguments
\* and the same answers of the server.
OutcomeAlone(id) ==
    RunAlone(id, EnterLeg(id, NewCall(calls[id].fn, calls[id].args), 1))

\* A step changes one call at most, and adds requests of that call only.
OneCallPerStep ==
    \A id \in 1..Len(calls) :
        calls[id]' # calls[id]
        => /\ \A other \in 1..Len(calls) : other # id => calls[other]' = calls[other]
           /\ \A i \in (Len(requests) + 1)..Len(requests') : requests'[i].call = id

\* C25: concurrent verification calls are independent.  However the steps
\* of two calls in flight and the answers to their requests interleave, the
\* outcome of each call is the one it has when run alone with the same
\* answers, and a step of one call leaves the other call as it is.
C25_ConcurrentCallsIndependent ==
    /\ [](\A id \in 1..Len(calls) : CallSettled(id) => calls[id].result = OutcomeAlone(id))
    /\ [][OneCallPerStep]_vars

\* C25 happens: two calls for the same uri were made, the server answered
\* the one and failed the other, and each ended as its own answer has it.
C25_Witness ==
    /\ Len(calls) = 2
    /\ Len(requests) >= 2
    /\ requests[1].call = 1
    /\ requests[2].call = 2
    /\ requests[1].uri = requests[2].uri
    /\ requests[1].outcome = Response(200, BodyAbc)
    /\ requests[2].outcome = NetworkError
    /\ calls[1].result = Resolved(TRUE)
    /\ calls[2].result = Rejected("Network Error")

\* The uri begins with https://, letter for letter.
BeginsWithHttps(uri) ==
    Len(uri) >= 8 /\ SubSeq(uri, 1, 8) = <<"h", "t", "t", "p", "s", ":", "/", "/">>

\* The uri a call checks first: its only one, or the tokenURI of its record.
FirstURI(id) ==
    IF calls[id].fn = "isURIHashVerified" THEN calls[id].args.uri
    ELSE calls[id].args.data.tokenURI

\* C26: the uri is validated before anything is fetched.  A call of
\* isURIHashVerified with a uri that does not begin with https:// rejects
\* and issues no request, and a record verification whose tokenURI is
\* invalid issues none for the metadataURI either; a request that was
\* issued is for a uri that begins with https://.
C26_ValidationPrecedesFetch ==
    /\ \A id \in 1..Len(calls) :
          ~BeginsWithHttps(FirstURI(id))
          => /\ calls[id].result.state = "rejected"
             /\ GetsOf(id, 1) = {}
             /\ GetsOf(id, 2) = {}
    /\ \A i \in 1..Len(requests) : BeginsWithHttps(requests[i].uri)

\* C26 happens: a record whose tokenURI is http:// and whose metadataURI is
\* https:// is verified; the call is rejected with the message of the
\* tokenURI and nothing was requested.
C26_Witness ==
    /\ Len(calls) = 1
    /\ calls[1].fn = "isItemDataVerified"
    /\ calls[1].args.data.tokenURI = BadTokenURI
    /\ calls[1].args.data.metadataURI = GoodMetadataURI
    /\ calls[1].result = Rejected("Invariant failed: http://t must begin with " \o QuotedHttps)
    /\ requests = <<>>

(***************************************************************************)
(* The listing wrappers.  ItemListing is there twice, in ItemListing.ts    *)
(* and in part_001; SpaceListing, AvatarListing and LandListing (part_006) *)
(* once.  A wrapper holds a binding of the listing contract at the address *)
(* its table has for the network, and the address of the asset contract.   *)
(***************************************************************************)
ListingSources == {"ItemListing.ts", "part_001", "SpaceListing.ts", "AvatarListing.ts",
                   "part_006"}

\* The asset a listing wrapper lists.
AssetOf(source) ==
    CASE source \in {"ItemListing.ts", "part_001"} -> "item"
      [] source = "SpaceListing.ts" -> "space"
      [] source = "AvatarListing.ts" -> "avatar"
      [] source = "part_006" -> "land"

\* The networks of itemListingAddresses, spaceListingAddresses, ...
ListingTableNetworks(source) ==
    IF source \in {"part_001", "SpaceListing.ts"}
    THEN {"mainnet", "ropsten", "polygon", "binance", "motif", "motifTestnet"}
    ELSE {"motif"}

ListingTableEntry(network, key) == "listing." \o network \o "." \o key

\* What the constructor of an ethers Contract throws for an address that is
\* undefined: the reason of the error, without the argument, code and
\* version that ethers appends to it in the error's message.
InvalidContractAddressMessage == "invalid contract address or ENS name"

\* ItemListing__factory.connect(itemListingAddresses[network], signerOrProvider)
ConnectListing(source, network) ==
    IF network \in ListingTableNetworks(source)
    THEN Returned(ListingTableEntry(network, AssetOf(source) \o "Listing"))
    ELSE Threw(InvalidContractAddressMessage)

\* The constructor of a listing wrapper: the instance, or what it throws.
ConstructListing(source, signerOrProvider, chainId, assetAddress, book) ==
    LET readOnly == ~signerOrProvider.isSigner
        network == chainIdToNetworkName(chainId)
        listing == ConnectListing(source, network.value)
        asset == IF ~Falsy(assetAddress)
                 THEN validateAndParseAddress(assetAddress.text)
                 ELSE BookLookup(book, network.value, AssetOf(source))
    IN  IF ~network.ok THEN network
        ELSE IF ~listing.ok THEN listing
        ELSE IF ~asset.ok THEN asset
        ELSE [ok |-> TRUE,
              value |-> [kind |-> AssetOf(source) \o "Listing", source |-> source,
                         readOnly |-> readOnly, chainId |-> chainId,
                         listingAddress |-> listing.value,
                         assetAddress |-> asset.value,
                         signerOrProvider |-> signerOrProvider],
              warnings |-> WarningsOf(asset)]

\* The reads of a listing by the bid methods.
ListingReadMethods == {"listings", "lists"}

\* The methods of a listing wrapper that write to the contract.
ListingMethodsOf(source) ==
    {"createListing", "setListingApproval", "setListingDropApproval",
     "setListingListPrice", "createBid", "endListing", "cancelListing"}
    \cup (IF source = "part_001" THEN {"createMultipleListings"} ELSE {})
    \cup (IF source \in {"part_001", "SpaceListing.ts", "AvatarListing.ts"}
          THEN {"endFixedPriceListing"} ELSE {})
    \cup (IF source \in {"ItemListing.ts", "part_006"} THEN {"createBidForFixed"} ELSE {})

IsListing(w) == w # NoWrapper /\ "source" \in DOMAIN w

CanCallListing(method) ==
    /\ IsListing(wrapper)
    /\ method \in ListingMethodsOf(wrapper.source)
    /\ contractCount < MaxContractCalls

\* The overrides a wrapper passes after the arguments of the contract method.
NoOverrides == [given |-> FALSE]
ValueOverride(amount) == [given |-> TRUE, value |-> amount]
GasLimitOverride(gasLimit) == [given |-> TRUE, gasLimit |-> gasLimit]

\* A call of the binding this.itemListing / this.spaceListing / ... made by
\* the SDK call id, with what it returned once it is answered.
ListingCall(id, method, args, overrides, returned) ==
    [call |-> id, contract |-> wrapper.kind, at |-> wrapper.listingAddress,
     method |-> method, args |-> args, overrides |-> overrides,
     asSigner |-> wrapper.signerOrProvider.isSigner,
     connected |-> "signerOrProvider", returned |-> returned]

\* What ethers rejects a transaction with when the contract is bound to a
\* provider: the reason of the error, without what ethers appends to it.
SignerRequiredMessage == "sending a transaction requires a signer"

\* How a transaction of the listing binding settles.
ListingTxOutcomes ==
    IF wrapper.signerOrProvider.isSigner THEN TxOutcomes
    ELSE {Rejected(SignerRequiredMessage)}

\* A wrapper method that hands its arguments to the contract method of the
\* same name, and returns its promise.
ListingForward(method, args) ==
    /\ CanCallListing(method)
    /\ \E out \in ListingTxOutcomes :
         LET call == SdkCallOf(method, args)
         IN  /\ sdkCall' = call
             /\ sdkResult' = out
             /\ contractLog' =
                   Append(WindowLog, ListingCall(call.id, method, args, NoOverrides, out))
    /\ contractCount' = contractCount + 1
    /\ UNCHANGED <<wrapper, inFlight, utilVars, verifyVars>>

TheListing ==
    [tokenId |-> 0, startsAt |-> 0, duration |-> 100, listPrice |-> 5, listType |-> 1,
     intermediary |-> ChecksummedB, intermediaryFeePercentages |-> 5]

\* The zero address, ethers.constants.AddressZero.
AddressZero == "0x0000000000000000000000000000000000000000"

ListCurrencyInputs == {AddressZero, ChecksummedA}

\* createListing: tokenAddress is this.itemAddress unless the caller gives one.
CreateListing ==
    \E listCurrency \in ListCurrencyInputs :
        ListingForward("createListing",
                       TheListing @@ [listCurrency |-> listCurrency,
                                      tokenAddress |-> wrapper.assetAddress])

SetListingApproval ==
    \E approved \in BOOLEAN :
        ListingForward("setListingApproval", [listingId |-> 0, approved |-> approved])

SetListingDropApproval ==
    ListingForward("setListingDropApproval",
                   [listingId |-> 0, approved |-> TRUE, startsAt |-> 0])

SetListingListPrice ==
    ListingForward("setListingListPrice", [listingId |-> 0, listPrice |-> 5])

EndListing == ListingForward("endListing", [listingId |-> 0])

CancelListing == ListingForward("cancelListing", [listingId |-> 0])

\* gasEstimate.mul(105).div(100), as the decimal string passed for gasLimit.
PaddedListingEstimate(gasEstimate) == NatToString((gasEstimate * 105) \div 100)

\* createMultipleListings (part_001): the gas estimate is asked for and
\* awaited.
CreateMultipleListings ==
    /\ CanCallListing("createMultipleListings")
    /\ LET call == SdkCallOf("createMultipleListings",
                             [tokenIds |-> <<0, 1>>, listPrices |-> <<5, 6>>,
                              tokenAddress |-> wrapper.assetAddress,
                              listCurrency |-> AddressZero])
       IN  Suspends(call,
                    <<ListingCall(call.id, "estimateGas.createMultipleListings", call.args,
                                  NoOverrides, Pending)>>,
                    "estimateGas.createMultipleListings")
    /\ UNCHANGED <<wrapper, utilVars, verifyVars>>

\* createMultipleListings after the await: a rejected estimate rejects the
\* call; otherwise the transaction is sent with the estimate and a twentieth
\* more.
ListingEstimateAnswered ==
    /\ \E c \in inFlight : \E est \in GasOutcomes, out \in ListingTxOutcomes :
         LET answered == AnswerPending(contractLog, c.call.id, est)
         IN  /\ c.awaiting = "estimateGas.createMultipleListings"
             /\ sdkCall' = c.call
             /\ inFlight' = inFlight \ {c}
             /\ IF est.state = "rejected"
                THEN /\ sdkResult' = est
                     /\ contractLog' = answered
                     /\ contractCount' = contractCount
                ELSE /\ sdkResult' = out
                     /\ contractLog' =
                          Append(answered,
                                 ListingCall(c.call.id, "createMultipleListings",
                                             c.call.args,
                                             GasLimitOverride(PaddedListingEstimate(est.value)),
                                             out))
                     /\ contractCount' = contractCount + 1
    /\ UNCHANGED <<wrapper, utilVars, verifyVars>>

\* What the contract answers when the listing is read.
ListingReadOutcomes ==
    {Resolved([listCurrency |-> c]) : c \in ListCurrencyInputs} \cup {Rejected(ContractError)}

BidAmountInputs == {0, 99}

\* A bid that attaches the amount whatever the currency of the listing.
BidOverridesAlwaysValue(listCurrency, amount) == ValueOverride(amount)

\* if (listCurrency === ethers.constants.AddressZero) ... { value: amount }
BidOverrides(listCurrency, amount) ==
    IF listCurrency = AddressZero THEN ValueOverride(amount) ELSE NoOverrides

\* createBid, endFixedPriceListing and createBidForFixed: the listing is
\* read, and the answer awaited.
ListingBid(method, readMethod) ==
    /\ CanCallListing(method)
    /\ \E amount \in BidAmountInputs :
         LET call == SdkCallOf(method, [listingId |-> 0, amount |-> amount])
         IN  Suspends(call,
                      <<ListingCall(call.id, readMethod, [listingId |-> 0], NoOverrides,
                                    Pending)>>,
                      readMethod)
    /\ UNCHANGED <<wrapper, utilVars, verifyVars>>

\* The contract method a bid method sends its transaction with.
BidContractMethod(method) ==
    IF method = "endFixedPriceListing" THEN "endFixedPriceListing" ELSE "createBid"

\* A bid after the await: a rejected read rejects the call; otherwise the
\* transaction is sent, with the amount as its value when the currency of
\* the listing is the zero address.
ListingAnswered ==
    /\ \E c \in inFlight : \E listed \in ListingReadOutcomes, out \in ListingTxOutcomes :
         LET answered == AnswerPending(contractLog, c.call.id, listed)
         IN  /\ c.awaiting \in ListingReadMethods
             /\ sdkCall' = c.call
             /\ inFlight' = inFlight \ {c}
             /\ IF listed.state = "rejected"
                THEN /\ sdkResult' = listed
                     /\ contractLog' = answered
                     /\ contractCount' = contractCount
                ELSE /\ sdkResult' = out
                     /\ contractLog' =
                          Append(answered,
                                 ListingCall(c.call.id, BidContractMethod(c.call.method),
                                             c.call.args,
                                             BidOverrides(listed.value.listCurrency,
                                                          c.call.args.amount),
                                             out))
                     /\ contractCount' = contractCount + 1
    /\ UNCHANGED <<wrapper, utilVars, verifyVars>>

CreateBid == ListingBid("createBid", "listings")
EndFixedPriceListing == ListingBid("endFixedPriceListing", "listings")
CreateBidForFixed == ListingBid("createBidForFixed", "lists")

ListingAssetAddressInputs == {Undefined, Str(""), Str(LowercaseA), Str(NotAnAddress)}

ConstructListingWrapper ==
    /\ wrapper = NoWrapper
    /\ \E source \in ListingSources, sp \in SignerOrProviderInputs,
          chainId \in ChainIdInputs, a \in ListingAssetAddressInputs,
          book \in AddressBooks :
          LET made == ConstructListing(source, sp, chainId, a, book)
          IN  /\ sdkCall' = [id |-> 0, method |-> "constructor", source |-> source,
                             signerOrProvider |-> sp, chainId |-> chainId,
                             assetAddress |-> a, book |-> book,
                             warnings |-> WarningsOf(made)]
              /\ IF made.ok
                 THEN wrapper' = made.value /\ sdkResult' = Resolved("instance")
                 ELSE wrapper' = NoWrapper /\ sdkResult' = Thrown(made.message)
    /\ UNCHANGED <<contractLog, contractCount, inFlight, utilVars, verifyVars>>

NextListing ==
    \/ ConstructListingWrapper
    \/ CreateListing
    \/ CreateMultipleListings
    \/ ListingEstimateAnswered
    \/ ListingAnswered
    \/ SetListingApproval
    \/ SetListingDropApproval
    \/ SetListingListPrice
    \/ CreateBid
    \/ EndFixedPriceListing
    \/ CreateBidForFixed
    \/ EndListing
    \/ CancelListing

SpecListing == InitAsset /\ [][NextListing]_vars

ListingWriteMethods ==
    {"createListing", "createMultipleListings", "setListingApproval",
     "setListingDropApproval", "setListingListPrice", "createBid",
     "endFixedPriceListing", "createBidForFixed", "endListing", "cancelListing"}

ListingCalled(methods) == IsListing(wrapper) /\ sdkCall.method \in methods

\* C27: on a listing wrapper whose readOnly flag is true, a write method is
\* rejected with the read-only message of the asset wrappers and no method of
\* the contract binding is called.
C27_ReadOnlyListingNeverCallsContract ==
    (ListingCalled(ListingWriteMethods) /\ wrapper.readOnly) =>
        /\ CallLog = <<>>
        /\ sdkResult = Rejected(ReadOnlyMessage)

AcceptedChainIds == {c \in ChainIdInputs : chainIdToNetworkName(c).ok}

ReachableNetworks == {chainIdToNetworkName(c).value : c \in AcceptedChainIds}

ListingConstructed ==
    sdkCall.method = "constructor" /\ "source" \in DOMAIN sdkCall

\* C28: a listing constructor called with an accepted chainId and no asset
\* address yields an instance bound to the address its table holds for the
\* network, and every network of the listing table and of the address book
\* is the network of an accepted chainId.
C28_AcceptedChainIdsResolveAddresses ==
    ListingConstructed =>
        /\ (sdkCall.chainId \in AcceptedChainIds /\ Falsy(sdkCall.assetAddress)) =>
              /\ sdkResult = Resolved("instance")
              /\ IsListing(wrapper)
              /\ wrapper.listingAddress =
                    ListingTableEntry(chainIdToNetworkName(sdkCall.chainId).value,
                                      wrapper.kind)
              /\ wrapper.assetAddress =
                    AddressBookEntry(chainIdToNetworkName(sdkCall.chainId).value,
                                     AssetOf(sdkCall.source))
        /\ ListingTableNetworks(sdkCall.source) \cup BookNetworks(sdkCall.book)
              \subseteq ReachableNetworks

BidMethods == {"createBid", "endFixedPriceListing", "createBidForFixed"}

ReadsOfListing ==
    {i \in 1..Len(CallLog) : CallLog[i].method \in ListingReadMethods}

\* C29: a bid on a listing reads the listing once, first; when the read
\* resolves, one transaction follows, which carries the amount as its value
\* if and only if the listCurrency read is the zero address, and no value
\* otherwise; when the read rejects, the call rejects with no transaction.
C29_ValueAttachedIffZeroCurrency ==
    ListingCalled(BidMethods) =>
        /\ ReadsOfListing = {1}
        /\ CallLog[1].args.listingId = sdkCall.args.listingId
        /\ IF CallLog[1].returned.state = "resolved"
           THEN /\ Len(CallLog) = 2
                /\ CallLog[2].method \in {"createBid", "endFixedPriceListing"}
                /\ CallLog[2].args = sdkCall.args
                /\ CallLog[2].overrides.given <=>
                      CallLog[1].returned.value.listCurrency = AddressZero
                /\ CallLog[2].overrides.given =>
                      CallLog[2].overrides = ValueOverride(sdkCall.args.amount)
                /\ sdkResult = CallLog[2].returned
           ELSE /\ Len(CallLog) = 1
                /\ sdkResult = CallLog[1].returned

\* C29: a bid of 99 on a listing in the native currency, and its transaction
\* with the value 99.
C29_Witness ==
    /\ ListingCalled(BidMethods)
    /\ sdkCall.args.amount = 99
    /\ Len(CallLog) = 2
    /\ CallLog[1].returned = Resolved([listCurrency |-> AddressZero])
    /\ CallLog[2].overrides = ValueOverride(99)
    /\ sdkResult = Resolved("tx")

\* C29: a bid on a listing in a token, and its transaction without a value.
C29_WitnessToken ==
    /\ ListingCalled({"endFixedPriceListing"})
    /\ Len(CallLog) = 2
    /\ CallLog[1].returned = Resolved([listCurrency |-> ChecksummedA])
    /\ CallLog[2].overrides = NoOverrides

====
